---------------------------- MODULE Spec2Model ----------------------------
(***************************************************************************)
(* A model of the LyriXStudio conversion engine (src/utils/lyrics.ts).     *)
(*                                                                         *)
(* Representation                                                          *)
(*   - A JavaScript string is a sequence of one-character strings.         *)
(*   - A JavaScript number is an integer count of ticks of 1/TicksPerSec   *)
(*     second (a decimal fixed point with four fraction digits); the       *)
(*     three non-finite numbers are the values NaN, PosInf and NegInf.     *)
(*     A tick count k stands for the IEEE-754 double nearest to k/10^4.    *)
(*     Sums, comparisons and integer floors of such values are computed    *)
(*     on the tick counts; the one place where the binary representation   *)
(*     changes a printed digit, Math.floor((seconds % 1) * 100) in         *)
(*     formatTimestamp, is computed bit-exactly (FloorFracTimes).          *)
(*   - An absent optional number is Undefined and an absent voice is       *)
(*     UndefinedText. An absent optional boolean is FALSE and an absent    *)
(*     metadata string is the empty string: the source only ever tests     *)
(*     these for truthiness. hasSongwriters and hasAttributes tell whether *)
(*     the songwriters array and the attributes object exist.              *)
(***************************************************************************)
EXTENDS Integers, Sequences, FiniteSets, TLC

\* ------------------------------------------------------------------------
\* JavaScript numbers
\* ------------------------------------------------------------------------

TicksPerSec == 10000

NaN == -2000000001

PosInf == 2000000000

NegInf == -2000000000

Undefined == -2000000002

isNaN(x) == x = NaN

IsFinite(x) == x \notin {NaN, PosInf, NegInf, Undefined}

\* a < b on JavaScript numbers (false as soon as one side is NaN)
JsLt(a, b) == a # NaN /\ b # NaN /\ a < b

\* a + b
JsAdd(a, b) ==
  IF a = NaN \/ b = NaN THEN NaN
  ELSE IF a = PosInf THEN (IF b = NegInf THEN NaN ELSE PosInf)
  ELSE IF a = NegInf THEN (IF b = PosInf THEN NaN ELSE NegInf)
  ELSE IF b \in {PosInf, NegInf} THEN b
  ELSE a + b

\* a * n for a positive integer literal n of the source
JsTimes(a, n) == IF IsFinite(a) THEN a * n ELSE a

\* Math.floor(a / n) for a positive integer literal n of the source
FloorDiv(a, n) == IF IsFinite(a) THEN (a \div (n * TicksPerSec)) * TicksPerSec ELSE a

\* a % n for a >= 0 and a positive integer literal n (Infinity % n is NaN)
JsMod(a, n) == IF IsFinite(a) THEN a % (n * TicksPerSec) ELSE NaN

\* Math.floor(a)
MathFloor(a) == IF IsFinite(a) THEN (a \div TicksPerSec) * TicksPerSec ELSE a

\* Math.max(0, a)
MathMax0(a) == IF a = NaN THEN NaN ELSE IF a < 0 THEN 0 ELSE a

\* ------------------------------------------------------------------------
\* JavaScript strings
\* ------------------------------------------------------------------------

Digits == <<"0", "1", "2", "3", "4", "5", "6", "7", "8", "9">>

IsDigit(c) == \E d \in 1..10 : Digits[d] = c

DigitVal(c) == (CHOOSE d \in 1..10 : Digits[d] = c) - 1

WhiteSpace == {" ", "\n", "\r", "\t"}

IsSpace(c) == c \in WhiteSpace

RECURSIVE NatToString(_)
NatToString(n) ==
  IF n < 10 THEN <<Digits[n + 1]>>
  ELSE NatToString(n \div 10) \o <<Digits[(n % 10) + 1]>>

\* Number.prototype.toString of an integer-valued number
NumToString(x) ==
  IF x = NaN THEN <<"N", "a", "N">>
  ELSE IF x = PosInf THEN <<"I", "n", "f", "i", "n", "i", "t", "y">>
  ELSE NatToString(x \div TicksPerSec)

\* String.prototype.padStart(n, c)
RECURSIVE padStart(_, _, _)
padStart(s, n, c) == IF Len(s) >= n THEN s ELSE padStart(<<c>> \o s, n, c)

RECURSIVE TrimStart(_)
TrimStart(s) ==
  IF s # <<>> /\ IsSpace(Head(s)) THEN TrimStart(Tail(s)) ELSE s

RECURSIVE TrimEnd(_)
TrimEnd(s) ==
  IF s # <<>> /\ IsSpace(s[Len(s)]) THEN TrimEnd(SubSeq(s, 1, Len(s) - 1)) ELSE s

\* String.prototype.trim
trim(s) == TrimEnd(TrimStart(s))

\* s.replace(/[\[\]<>]/g, '')
StripBrackets(s) == SelectSeq(s, LAMBDA c : c \notin {"[", "]", "<", ">"})

\* the 1-based position of the first character of s that is one of chars, 0
\* when there is none
FirstIndex(s, chars) ==
  IF \A i \in 1..Len(s) : s[i] \notin chars THEN 0
  ELSE CHOOSE i \in 1..Len(s) : s[i] \in chars /\ \A j \in 1..(i - 1) : s[j] \notin chars

\* s cut at the separator found at position i, the separator left out
SplitAt(s, i) == <<SubSeq(s, 1, i - 1), SubSeq(s, i + 1, Len(s))>>

\* String.prototype.split(sep) for a one-character separator
RECURSIVE split(_, _)
SplitRest(cut, sep) == <<cut[1]>> \o split(cut[2], sep)

split(s, sep) ==
  IF FirstIndex(s, {sep}) = 0 THEN <<s>>
  ELSE SplitRest(SplitAt(s, FirstIndex(s, {sep})), sep)

\* the longest prefix of s made of decimal digits
RECURSIVE DigitPrefix(_)
DigitPrefix(s) ==
  IF s # <<>> /\ IsDigit(Head(s)) THEN <<Head(s)>> \o DigitPrefix(Tail(s)) ELSE <<>>

\* the integer written by a sequence of digits (0 for the empty sequence)
RECURSIVE DigitsToNat(_)
DigitsToNat(ds) ==
  IF ds = <<>> THEN 0 ELSE DigitsToNat(SubSeq(ds, 1, Len(ds) - 1)) * 10 + DigitVal(ds[Len(ds)])

\* the ticks written by the fraction digits ds (digits after the fourth are
\* below the resolution of a tick)
FractionTicks(ds) ==
  LET d(i) == IF i <= Len(ds) THEN DigitVal(ds[i]) ELSE 0
  IN d(1) * 1000 + d(2) * 100 + d(3) * 10 + d(4)

\* parseInt(s, 10): leading white space, an optional sign, then digits
parseInt(s) ==
  LET t == TrimStart(s)
      neg == t # <<>> /\ Head(t) = "-"
      u == IF t # <<>> /\ Head(t) \in {"-", "+"} THEN Tail(t) ELSE t
      ds == DigitPrefix(u)
  IN IF ds = <<>> THEN NaN
     ELSE (IF neg THEN -1 ELSE 1) * DigitsToNat(ds) * TicksPerSec

\* parseFloat(s): leading white space, an optional sign, digits, an optional
\* fraction; NaN when no digit is found
parseFloat(s) ==
  LET t == TrimStart(s)
      neg == t # <<>> /\ Head(t) = "-"
      u == IF t # <<>> /\ Head(t) \in {"-", "+"} THEN Tail(t) ELSE t
      ip == DigitPrefix(u)
      rest == SubSeq(u, Len(ip) + 1, Len(u))
      fp == IF rest # <<>> /\ Head(rest) = "." THEN DigitPrefix(Tail(rest)) ELSE <<>>
  IN IF ip = <<>> /\ fp = <<>> THEN NaN
     ELSE (IF neg THEN -1 ELSE 1) * (DigitsToNat(ip) * TicksPerSec + FractionTicks(fp))

\* ------------------------------------------------------------------------
\* Timestamp codec
\* ------------------------------------------------------------------------

\* the number of bits of the positive integer n
RECURSIVE BitLength(_)
BitLength(n) == IF n = 0 THEN 0 ELSE 1 + BitLength(n \div 2)

\* 2^n, capped at 2^30
RECURSIVE Pow2(_)
Pow2(n) == IF n <= 0 THEN 1 ELSE IF n >= 30 THEN 1073741824 ELSE 2 * Pow2(n - 1)

\* the number of leading zero bits of the binary fraction r / TicksPerSec, r > 0
RECURSIVE LeadingZeros(_)
LeadingZeros(r) == IF 2 * r >= TicksPerSec THEN 0 ELSE 1 + LeadingZeros(2 * r)

\* the remainder r * 2^f mod TicksPerSec left after f bits of the binary
\* expansion of r / TicksPerSec (ten bits at a time while ten are left)
RECURSIVE BinaryRemainder(_, _)
BinaryRemainder(r, f) ==
  IF f = 0 THEN r
  ELSE IF f >= 10 THEN BinaryRemainder((1024 * r) % TicksPerSec, f - 10)
  ELSE BinaryRemainder((2 * r) % TicksPerSec, f - 1)

(***************************************************************************)
(* Math.floor((seconds % 1) * scale) for scale 100 or 1000, as IEEE-754    *)
(* double arithmetic computes it on the double nearest to seconds.         *)
(* With seconds = I + r/10^4 the double keeps F fraction bits (53 in all), *)
(* so seconds % 1 is r/10^4 + e, where e = -rF/(10^4 * 2^F) when the       *)
(* expansion is cut and rounded down, rF being the remainder after F bits  *)
(* (e > 0 when it is rounded up). The product is q + rho + scale * e, with *)
(* q the decimal digits wanted and rho the decimal rest. When rho > 0 the  *)
(* floor is q. When rho = 0 and e < 0 the product lies just below q and    *)
(* is rounded to q only if scale * |e| is at most half the spacing of the  *)
(* doubles below q; otherwise its floor is q - 1.                          *)
(***************************************************************************)
FloorFracTimes(seconds, scale) ==
  IF ~IsFinite(seconds) THEN NaN
  ELSE
    LET I == seconds \div TicksPerSec
        r == seconds % TicksPerSec
        q == (scale * r) \div TicksPerSec
        rho == (scale * r) % TicksPerSec
        F == IF I >= 1 THEN 53 - BitLength(I) ELSE 53 + LeadingZeros(r)
        rF == BinaryRemainder(r, F)
        \* q lies in (2^j, 2^(j+1)]
        j == BitLength(q - 1) - 1
        \* x = 53 - F - j: scale * |e| <= 2^(j-53)  <=>  rF * scale * 2^x <= 10^4
        x == 53 - F - j
        roundsBackToQ ==
          IF x >= 14 THEN FALSE
          ELSE IF x >= 0 THEN rF * scale <= TicksPerSec \div Pow2(x)
          ELSE IF -x >= 10 THEN TRUE
          ELSE rF * scale <= TicksPerSec * Pow2(-x)
    IN IF rho # 0 \/ r = 0 \/ rF = 0 THEN q * TicksPerSec
       ELSE IF 2 * rF >= TicksPerSec THEN q * TicksPerSec
       ELSE IF roundsBackToQ THEN q * TicksPerSec
       ELSE (q - 1) * TicksPerSec

ZeroString(precision) ==
  IF precision = 3 THEN <<"0", "0", ":", "0", "0", ".", "0", "0", "0">>
  ELSE <<"0", "0", ":", "0", "0", ".", "0", "0">>

formatTimestamp(seconds, precision) ==
  IF isNaN(seconds) \/ JsLt(seconds, 0) THEN ZeroString(precision)
  ELSE
    LET hours == FloorDiv(seconds, 3600)
        minutes == FloorDiv(JsMod(seconds, 3600), 60)
        secs == MathFloor(JsMod(seconds, 60))
        mStr == padStart(NumToString(minutes), 2, "0")
        sStr == padStart(NumToString(secs), 2, "0")
        msStr == IF precision = 3
                 THEN padStart(NumToString(FloorFracTimes(seconds, 1000)), 3, "0")
                 ELSE padStart(NumToString(FloorFracTimes(seconds, 100)), 2, "0")
        timeBase == IF JsLt(0, hours)
                    THEN NumToString(hours) \o <<":">> \o mStr \o <<":">> \o sStr
                    ELSE mStr \o <<":">> \o sStr
    IN timeBase \o <<".">> \o msStr

parseTimestamp(timeStr) ==
  IF timeStr = <<>> THEN 0
  ELSE
    LET cleanStr == StripBrackets(trim(timeStr))
        parts == split(cleanStr, ":")
    IN IF Len(parts) = 3
       THEN JsAdd(JsAdd(JsTimes(parseInt(parts[1]), 3600), JsTimes(parseInt(parts[2]), 60)),
                  parseFloat(parts[3]))
       ELSE IF Len(parts) = 2
       THEN JsAdd(JsTimes(parseInt(parts[1]), 60), parseFloat(parts[2]))
       ELSE IF ~isNaN(parseFloat(cleanStr)) THEN parseFloat(cleanStr)
       ELSE 0


\* ------------------------------------------------------------------------
\* More string helpers
\* ------------------------------------------------------------------------

\* String.prototype.substring(n) with a 0-based n
substring(s, n) == SubSeq(s, n + 1, Len(s))

\* whether pat occurs in s at the 1-based position p
OccursAt(s, pat, p) ==
  p + Len(pat) - 1 <= Len(s) /\ SubSeq(s, p, p + Len(pat) - 1) = pat

\* String.prototype.includes
includes(s, pat) == \E p \in 1..(Len(s) + 1) : OccursAt(s, pat, p)

startsWith(s, c) == s # <<>> /\ s[1] = c

endsWith(s, c) == s # <<>> /\ s[Len(s)] = c

\* String.prototype.split(/\s+/): a run of white space is one separator
RECURSIVE SplitWhitespace(_)
SplitWsRest(cut) == <<cut[1]>> \o SplitWhitespace(TrimStart(cut[2]))

SplitWhitespace(s) ==
  IF FirstIndex(s, WhiteSpace) = 0 THEN <<s>>
  ELSE SplitWsRest(SplitAt(s, FirstIndex(s, WhiteSpace)))

\* String.prototype.split(/\r?\n/): a carriage return right before the line
\* feed belongs to the separator
SplitLines(s) ==
  LET pieces == split(s, "\n")
  IN [i \in 1..Len(pieces) |->
        IF i < Len(pieces) /\ endsWith(pieces[i], "\r")
        THEN SubSeq(pieces[i], 1, Len(pieces[i]) - 1)
        ELSE pieces[i]]

\* Array.prototype.join(sep)
RECURSIVE join(_, _)
join(parts, sep) ==
  IF parts = <<>> THEN <<>>
  ELSE IF Len(parts) = 1 THEN parts[1]
  ELSE parts[1] \o sep \o join(Tail(parts), sep)

Uppers == <<"A", "B", "C", "D", "E", "F", "G", "H", "I", "J", "K", "L", "M",
            "N", "O", "P", "Q", "R", "S", "T", "U", "V", "W", "X", "Y", "Z">>

Lowers == <<"a", "b", "c", "d", "e", "f", "g", "h", "i", "j", "k", "l", "m",
            "n", "o", "p", "q", "r", "s", "t", "u", "v", "w", "x", "y", "z">>

IsUpper(c) == \E i \in 1..26 : Uppers[i] = c

IsLower(c) == \E i \in 1..26 : Lowers[i] = c

\* String.prototype.toLowerCase
toLowerCase(s) ==
  [i \in 1..Len(s) |->
     IF IsUpper(s[i]) THEN Lowers[CHOOSE k \in 1..26 : Uppers[k] = s[i]] ELSE s[i]]

\* [a-zA-Z0-9]
IsAlnum(c) == IsLower(c) \/ IsUpper(c) \/ IsDigit(c)

UndefinedText == <<"undefined">>

\* ------------------------------------------------------------------------
\* Regular expressions of the parsers
\* ------------------------------------------------------------------------

NoMatch == [found |-> FALSE, index |-> 0, len |-> 0, g1 |-> <<>>, g2 |-> <<>>, g3 |-> <<>>, g4 |-> <<>>]

(***************************************************************************)
(* open (\d{1,2}):(\d{1,2})(?::(\d{1,2}))?(?:\.(\d{1,3}))? close matched   *)
(* at the 1-based position p of s. Every digit run is followed by a        *)
(* non-digit of the pattern, so a run matches only when its whole length   *)
(* is within the quantifier. An unmatched group is <<>>.                   *)
(***************************************************************************)
TimeTagAt(s, p, open, close) ==
  IF ~(p <= Len(s) /\ s[p] = open) THEN NoMatch
  ELSE
    LET g1 == DigitPrefix(SubSeq(s, p + 1, Len(s)))
        p2 == p + 1 + Len(g1)
        g2 == IF p2 <= Len(s) /\ s[p2] = ":" THEN DigitPrefix(SubSeq(s, p2 + 1, Len(s))) ELSE <<>>
        p3 == p2 + 1 + Len(g2)
        has3 == p3 <= Len(s) /\ s[p3] = ":"
        g3 == IF has3 THEN DigitPrefix(SubSeq(s, p3 + 1, Len(s))) ELSE <<>>
        p4 == IF has3 THEN p3 + 1 + Len(g3) ELSE p3
        has4 == p4 <= Len(s) /\ s[p4] = "."
        g4 == IF has4 THEN DigitPrefix(SubSeq(s, p4 + 1, Len(s))) ELSE <<>>
        p5 == IF has4 THEN p4 + 1 + Len(g4) ELSE p4
    IN IF /\ Len(g1) \in 1..2
          /\ Len(g2) \in 1..2
          /\ (has3 => Len(g3) \in 1..2)
          /\ (has4 => Len(g4) \in 1..3)
          /\ p5 <= Len(s) /\ s[p5] = close
       THEN [found |-> TRUE, index |-> p - 1, len |-> p5 - p + 1,
             g1 |-> g1, g2 |-> g2, g3 |-> g3, g4 |-> g4]
       ELSE NoMatch

\* the match a regular expression reports: the leftmost of those found
EarliestMatch(matches) ==
  LET found == {m \in matches : m.found}
  IN IF found = {} THEN NoMatch
     ELSE CHOOSE m \in found : \A q \in found : m.index <= q.index

\* RegExp.prototype.exec of the global lineTimeRegex: the first match that
\* starts at or after the 0-based lastIndex
lineTimeRegexExec(content, lastIndex) ==
  EarliestMatch({TimeTagAt(content, p, "[", "]") : p \in (lastIndex + 1)..Len(content)})

\* the seconds of a matched time tag: the HH:MM:SS form when group 3 matched,
\* the MM:SS form otherwise
TagSeconds(m) ==
  LET ms == parseFloat(<<"0", ".">> \o (IF m.g4 # <<>> THEN m.g4 ELSE <<"0">>))
  IN IF m.g3 # <<>>
     THEN JsAdd(JsAdd(JsAdd(JsTimes(parseInt(m.g1), 3600), JsTimes(parseInt(m.g2), 60)),
                      parseInt(m.g3)), ms)
     ELSE JsAdd(JsAdd(JsTimes(parseInt(m.g1), 60), parseInt(m.g2)), ms)

\* metaRegex /^\[([a-zA-Z0-9-]+):(.*)\]$/ : the key runs to the first colon
metaRegexMatch(content) ==
  LET colons == {p \in 1..Len(content) : content[p] = ":"}
      c == CHOOSE p \in colons : \A q \in colons : p <= q
  IN IF /\ Len(content) >= 4
        /\ content[1] = "["
        /\ content[Len(content)] = "]"
        /\ colons # {}
        /\ c >= 3
        /\ c < Len(content)
        /\ \A p \in 2..(c - 1) : IsAlnum(content[p]) \/ content[p] = "-"
     THEN [found |-> TRUE, g1 |-> SubSeq(content, 2, c - 1),
           g2 |-> SubSeq(content, c + 1, Len(content) - 1)]
     ELSE [found |-> FALSE, g1 |-> <<>>, g2 |-> <<>>]

\* /^([A-Za-z0-9\s]+):\s+(.*)/ : a name up to the first colon, then white space
voiceRegexMatch(content) ==
  LET colons == {p \in 1..Len(content) : content[p] = ":"}
      c == CHOOSE p \in colons : \A q \in colons : p <= q
  IN IF /\ colons # {}
        /\ c >= 2
        /\ \A p \in 1..(c - 1) : IsAlnum(content[p]) \/ IsSpace(content[p])
        /\ c < Len(content)
        /\ IsSpace(content[c + 1])
     THEN [found |-> TRUE, g1 |-> SubSeq(content, 1, c - 1),
           g2 |-> TrimStart(SubSeq(content, c + 1, Len(content)))]
     ELSE [found |-> FALSE, g1 |-> <<>>, g2 |-> <<>>]

\* /<(\d{1,2}):(\d{1,2})/.test(content)
hasWordTimingsTest(content) ==
  \E p \in 1..Len(content) :
    /\ content[p] = "<"
    /\ LET g1 == DigitPrefix(SubSeq(content, p + 1, Len(content)))
           p2 == p + 1 + Len(g1)
       IN /\ Len(g1) \in 1..2
          /\ p2 + 1 <= Len(content)
          /\ content[p2] = ":"
          /\ IsDigit(content[p2 + 1])


\* ------------------------------------------------------------------------
\* Documents
\* ------------------------------------------------------------------------

\* generateId() returns an opaque random identifier; the model numbers the
\* lines a parser builds in the order it meets them (the TTML parser counts
\* every p element it visits) and gives line n the identifier <<n>> and its
\* j-th word <<n, j>>
LineId(n) == <<n>>

WordId(n, j) == <<n, j>>

TimedWord(id, text, startTime) ==
  [id |-> id, text |-> text, startTime |-> startTime, endTime |-> Undefined,
   isBackground |-> FALSE]

EmptyMetadata ==
  [title |-> <<>>, artist |-> <<>>, album |-> <<>>, author |-> <<>>,
   createdBy |-> <<>>, creator |-> <<>>, version |-> <<>>, offset |-> 0,
   language |-> <<>>, songwriters |-> <<>>, hasSongwriters |-> FALSE,
   custom |-> <<>>]

\* metadata.custom[key] = val on an object that keeps its keys in insertion order
SetCustom(custom, key, val) ==
  IF \E i \in 1..Len(custom) : custom[i][1] = key
  THEN [i \in 1..Len(custom) |-> IF custom[i][1] = key THEN <<key, val>> ELSE custom[i]]
  ELSE Append(custom, <<key, val>>)

\* an insertion that puts x before the lines that start when x starts: the
\* step of a sort that is not stable
RECURSIVE InsertBeforeTies(_, _)
InsertBeforeTies(sorted, x) ==
  IF sorted = <<>> THEN <<x>>
  ELSE IF ~JsLt(sorted[Len(sorted)].startTime, x.startTime)
  THEN Append(InsertBeforeTies(SubSeq(sorted, 1, Len(sorted) - 1), x), sorted[Len(sorted)])
  ELSE Append(sorted, x)

\* Array.prototype.sort((a, b) => a.startTime - b.startTime): a stable sort
RECURSIVE InsertByStart(_, _)
InsertByStart(sorted, x) ==
  IF sorted = <<>> THEN <<x>>
  ELSE IF JsLt(x.startTime, sorted[Len(sorted)].startTime)
  THEN Append(InsertByStart(SubSeq(sorted, 1, Len(sorted) - 1), x), sorted[Len(sorted)])
  ELSE Append(sorted, x)

RECURSIVE SortByStart(_)
SortByStart(lines) ==
  IF lines = <<>> THEN <<>>
  ELSE InsertByStart(SortByStart(SubSeq(lines, 1, Len(lines) - 1)), lines[Len(lines)])

\* ------------------------------------------------------------------------
\* LRC / ELRC parser
\* ------------------------------------------------------------------------

\* step 1 of the forEach body: the assignment a [key:value] line makes
ApplyMeta(metadata, key, val) ==
  CASE key = <<"t", "i">> -> [metadata EXCEPT !.title = val]
    [] key = <<"a", "r">> -> [metadata EXCEPT !.artist = val]
    [] key = <<"a", "l">> -> [metadata EXCEPT !.album = val]
    [] key = <<"a", "u">> -> [metadata EXCEPT !.author = val]
    [] key = <<"b", "y">> -> [metadata EXCEPT !.createdBy = val]
    [] key = <<"r", "e">> -> [metadata EXCEPT !.creator = val]
    [] key = <<"v", "e">> -> [metadata EXCEPT !.version = val]
    [] key = <<"o", "f", "f", "s", "e", "t">> -> [metadata EXCEPT !.offset = parseInt(val)]
    [] key = <<"l", "a">> -> [metadata EXCEPT !.language = val]
    [] OTHER -> [metadata EXCEPT !.custom = SetCustom(@, key, val)]

RECURSIVE ExtractTimestamps(_, _, _)

\* one turn of the while loop, result being what lineTimeRegex.exec returned
AfterExec(content, timestamps, result) ==
  IF result.found /\ result.index = 0
  THEN ExtractTimestamps(trim(substring(content, result.len)),
                         Append(timestamps, TagSeconds(result)), 0)
  ELSE [content |-> content, timestamps |-> timestamps,
        lastIndex |-> IF result.found THEN result.index + result.len ELSE 0]

\* step 2: the while loop that strips the leading timestamps; lastIndex is
\* the lastIndex property of lineTimeRegex, which all raw lines share
ExtractTimestamps(content, timestamps, lastIndex) ==
  AfterExec(content, timestamps, lineTimeRegexExec(content, lastIndex))

\* the position of the > that closes a <[\d:.]+> starting at position p of
\* s, 0 when none starts there
TagEndAt(s, p) ==
  LET isTagChar(c) == IsDigit(c) \/ c = ":" \/ c = "."
      closes(e) == s[e] = ">" /\ \A k \in (p + 1)..(e - 1) : isTagChar(s[k])
  IN IF s[p] = "<" /\ \E e \in (p + 2)..Len(s) : closes(e)
     THEN CHOOSE e \in (p + 2)..Len(s) : closes(e)
     ELSE 0

\* the position where the first <[\d:.]+> of s starts, 0 when s has none
FirstTagStart(s) ==
  IF \A p \in 1..Len(s) : TagEndAt(s, p) = 0 THEN 0
  ELSE CHOOSE p \in 1..Len(s) : TagEndAt(s, p) # 0 /\ \A q \in 1..(p - 1) : TagEndAt(s, q) = 0

\* content.split(/(<[\d:.]+>)/): the text pieces and the <...> separators
RECURSIVE SplitTags(_)
SplitTagsRest(s, p, e) ==
  <<SubSeq(s, 1, p - 1), SubSeq(s, p, e)>> \o SplitTags(SubSeq(s, e + 1, Len(s)))

SplitTags(content) ==
  IF FirstTagStart(content) = 0 THEN <<content>>
  ELSE SplitTagsRest(content, FirstTagStart(content),
                     TagEndAt(content, FirstTagStart(content)))

\* part.match(/<(\d{1,2}):(\d{1,2})(?::(\d{1,2}))?(?:\.(\d{1,3}))?>/)
tagRegexMatch(part) == EarliestMatch({TimeTagAt(part, p, "<", ">") : p \in 1..Len(part)})

RECURSIVE WordsFromParts(_, _, _, _)

\* the callback of parts.forEach, tagMatch being what part.match returned:
\* a tag sets currentWordTime, any other part becomes one word
WordFromPart(parts, currentWordTime, words, n, tagMatch) ==
  IF tagMatch.found
  THEN WordsFromParts(Tail(parts), TagSeconds(tagMatch), words, n)
  ELSE IF trim(Head(parts)) # <<>>
  THEN WordsFromParts(Tail(parts), currentWordTime,
                      Append(words, TimedWord(WordId(n, Len(words) + 1), trim(Head(parts)),
                                              currentWordTime)), n)
  ELSE WordsFromParts(Tail(parts), currentWordTime, words, n)

\* the parts.forEach of the word-timing branch
WordsFromParts(parts, currentWordTime, words, n) ==
  IF parts = <<>> THEN words
  ELSE WordFromPart(parts, currentWordTime, words, n, tagRegexMatch(Head(parts)))

\* the words of the branch without word timings, plainWords being
\* content.split(/\s+/).filter(Boolean)
PlainWords(plainWords, startTime, n) ==
  [j \in 1..Len(plainWords) |-> TimedWord(WordId(n, j), plainWords[j], startTime)]

\* lines.push({...}) for the words built
LineOfWords(words, content, startTime, voice, isBackground, n) ==
  LET rawTextClean == join([j \in 1..Len(words) |-> words[j].text], <<" ">>)
  IN [id |-> LineId(n), startTime |-> startTime, endTime |-> Undefined, words |-> words,
      rawText |-> IF rawTextClean # <<>> THEN rawTextClean ELSE content,
      voice |-> voice, isBackground |-> isBackground,
      hasAttributes |-> FALSE, attributes |-> <<>>]

\* the body of timestamps.forEach: the line built for one leading timestamp;
\* n is the number of the line among those the parser builds
BuildLine(content, startTime, voice, isBackground, hasWordTimings, n) ==
  LineOfWords(IF hasWordTimings
              THEN WordsFromParts(SelectSeq(SplitTags(content), LAMBDA p : trim(p) # <<>>),
                                  startTime, <<>>, n)
              ELSE PlainWords(SelectSeq(SplitWhitespace(content), LAMBDA w : w # <<>>),
                              startTime, n),
              content, startTime, voice, isBackground, n)

\* the part of the forEach body under if (timestamps.length > 0), ex being
\* what the while loop left and voiceMatch what content.match returned
PushLines(st, ex, voiceMatch) ==
  LET isBackground == startsWith(ex.content, "(") /\ endsWith(ex.content, ")")
      voice == IF voiceMatch.found THEN trim(voiceMatch.g1) ELSE <<"v", "1">>
      content == IF voiceMatch.found THEN trim(voiceMatch.g2) ELSE ex.content
  IN [st EXCEPT
        !.lastIndex = ex.lastIndex,
        !.lines = @ \o [i \in 1..Len(ex.timestamps) |->
                          BuildLine(content, ex.timestamps[i], voice, isBackground,
                                    hasWordTimingsTest(content), Len(st.lines) + i)]]

\* the forEach body after the metadata check
LyricLine(st, ex) == PushLines(st, ex, voiceRegexMatch(ex.content))

\* the forEach body for the trimmed raw line, metaMatch being what
\* content.match(metaRegex) returned
ParseContent(st, content, metaMatch) ==
  IF content = <<>> THEN st
  ELSE IF metaMatch.found /\ ~IsDigit(trim(toLowerCase(metaMatch.g1))[1])
  THEN [st EXCEPT !.metadata = ApplyMeta(@, trim(toLowerCase(metaMatch.g1)), trim(metaMatch.g2))]
  ELSE LyricLine(st, ExtractTimestamps(content, <<>>, st.lastIndex))

\* the body of rawLines.forEach; st holds lines, metadata and the regex's lastIndex
ParseRawLine(st, rawLine) == ParseContent(st, trim(rawLine), metaRegexMatch(trim(rawLine)))

RECURSIVE ParseRawLines(_, _)
ParseRawLines(st, rawLines) ==
  IF rawLines = <<>> THEN st
  ELSE ParseRawLines(ParseRawLine(st, Head(rawLines)), Tail(rawLines))

\* an inference that ends every word when its line ends
InferEndTimesAtLineEnd(lines) ==
  [i \in 1..Len(lines) |->
     LET endTime == IF i < Len(lines) THEN lines[i + 1].startTime
                    ELSE JsAdd(lines[i].startTime, 5 * TicksPerSec)
     IN [lines[i] EXCEPT
           !.endTime = endTime,
           !.words = [j \in 1..Len(lines[i].words) |->
                        [lines[i].words[j] EXCEPT !.endTime = endTime]]]]

\* the "Infer end times" loop on the sorted lines
InferEndTimes(lines) ==
  [i \in 1..Len(lines) |->
     LET endTime == IF i < Len(lines) THEN lines[i + 1].startTime
                    ELSE JsAdd(lines[i].startTime, 5 * TicksPerSec)
     IN [lines[i] EXCEPT
           !.endTime = endTime,
           !.words = [j \in 1..Len(lines[i].words) |->
                        [lines[i].words[j] EXCEPT
                           !.endTime = IF j < Len(lines[i].words)
                                       THEN lines[i].words[j + 1].startTime
                                       ELSE endTime]]]]

\* author.split(',').map(s => s.trim())
SplitAuthors(author) == [i \in 1..Len(split(author, ",")) |-> trim(split(author, ",")[i])]

\* the lines, the metadata and the regex's lastIndex before the first raw line
LrcStart == [lines |-> <<>>, metadata |-> EmptyMetadata, lastIndex |-> 0]

\* "Populate songwriters if author is present but songwriters is not"
WithSongwriters(m) ==
  IF m.author # <<>> /\ ~m.hasSongwriters
  THEN [m EXCEPT !.songwriters = SplitAuthors(m.author), !.hasSongwriters = TRUE]
  ELSE m

\* what parseLRC does after rawLines.forEach: sort, infer, songwriters, return
LrcReturn(st) ==
  [format |-> "LRC", lines |-> InferEndTimes(SortByStart(st.lines)),
   metadata |-> WithSongwriters(st.metadata)]

parseLRC(text) == LrcReturn(ParseRawLines(LrcStart, SplitLines(text)))

parseELRC(text) == [parseLRC(text) EXCEPT !.format = "ELRC"]

\* ------------------------------------------------------------------------
\* TTML parser
\* ------------------------------------------------------------------------

(***************************************************************************)
(* The document DOMParser builds is a tree of nodes. A name is the pair    *)
(* <<prefix, local name>> ("" for no prefix); ns is the namespace the      *)
(* prefix is bound to ("ttm", "itunes", "tt" for the three URIs of the     *)
(* source, "" for none). An element has attributes and children, a text    *)
(* node has text.                                                          *)
(***************************************************************************)
Attr(name, ns, value) == [name |-> name, ns |-> ns, value |-> value]

Element(name, ns, attrs, children) ==
  [type |-> "element", name |-> name, ns |-> ns, attrs |-> attrs, children |-> children,
   text |-> <<>>]

TextNode(text) ==
  [type |-> "text", name |-> <<"", "#text">>, ns |-> "", attrs |-> <<>>, children |-> <<>>,
   text |-> text]

\* null, the value of a missing attribute
Null == <<"null">>

\* the descendant elements of a node in document order
RECURSIVE DescendantElements(_)
DescendantElements(node) ==
  LET RECURSIVE Over(_)
      Over(children) ==
        IF children = <<>> THEN <<>>
        ELSE (IF Head(children).type = "element"
              THEN <<Head(children)>> \o DescendantElements(Head(children))
              ELSE <<>>) \o Over(Tail(children))
  IN Over(node.children)

\* node.getElementsByTagName(name): by qualified name
getElementsByTagName(node, name) ==
  SelectSeq(DescendantElements(node), LAMBDA e : e.name = name)

\* node.getElementsByTagNameNS(ns, local)
getElementsByTagNameNS(node, ns, local) ==
  SelectSeq(DescendantElements(node), LAMBDA e : e.ns = ns /\ e.name[2] = local)

\* xmlDoc.getElementsByTagName(name): the document element included
DocElementsByTagName(xmlDoc, name) ==
  SelectSeq(<<xmlDoc.documentElement>> \o DescendantElements(xmlDoc.documentElement),
            LAMBDA e : e.name = name)

\* Node.textContent
RECURSIVE textContent(_)
textContent(node) ==
  IF node.type = "text" THEN node.text
  ELSE LET RECURSIVE Over(_)
           Over(children) ==
             IF children = <<>> THEN <<>>
             ELSE textContent(Head(children)) \o Over(Tail(children))
       IN Over(node.children)

\* the value of the first of the attributes hits, or null
FirstAttr(hits) == IF hits = <<>> THEN Null ELSE hits[1].value

\* el.getAttribute(name): by qualified name
getAttribute(el, name) == FirstAttr(SelectSeq(el.attrs, LAMBDA a : a.name = name))

\* getAttr(el, name, nsUrl): by namespace and local name, then by qualified
\* name, then, for a prefixed name, by qualified or local name
getAttr(el, name, nsUrl) ==
  IF nsUrl # "" /\ \E i \in 1..Len(el.attrs) : el.attrs[i].ns = nsUrl /\ el.attrs[i].name[2] = name[2]
                                                /\ name[1] = ""
  THEN FirstAttr(SelectSeq(el.attrs, LAMBDA a : a.ns = nsUrl /\ a.name[2] = name[2]))
  ELSE IF \E i \in 1..Len(el.attrs) : el.attrs[i].name = name
  THEN getAttribute(el, name)
  ELSE IF name[1] # ""
  THEN FirstAttr(SelectSeq(el.attrs, LAMBDA a : a.name = name \/ a.name[2] = name[2]))
  ELSE Null

\* a || b on attribute values: null and the empty string are falsy
OrElse(a, b) == IF a \notin {Null, <<>>} THEN a ELSE b

\* the parseTime closure of parseTTML
parseTime(t) ==
  IF t \in {Null, <<>>} THEN Undefined
  ELSE IF includes(t, <<":">>) THEN parseTimestamp(t)
  ELSE IF Len(t) >= 2 /\ SubSeq(t, Len(t) - 1, Len(t)) = <<"m", "s">>
  THEN (IF isNaN(parseFloat(t)) THEN NaN ELSE parseFloat(t) \div 1000)
  ELSE IF endsWith(t, "s") THEN parseFloat(t)
  ELSE IF isNaN(parseFloat(t)) THEN Undefined ELSE parseFloat(t)

\* the truthiness of a number: undefined, 0 and NaN are falsy
Truthy(x) == x \notin {Undefined, 0, NaN}

\* a >= b on JavaScript numbers
JsGe(a, b) == a # NaN /\ b # NaN /\ a >= b

\* the back-fill loop without the test for an end that is already set
RECURSIVE BackFillOverwriting(_, _, _, _)
BackFillOverwriting(words, i, effectiveStart, endTime) ==
  IF i >= 1 /\ JsGe(words[i].startTime, effectiveStart)
  THEN BackFillOverwriting([words EXCEPT ![i].endTime = endTime], i - 1, effectiveStart, endTime)
  ELSE words

\* the for loop that applies an element's end time to the trailing words
\* that start at or after effectiveStart and have no end time yet
RECURSIVE BackFill(_, _, _, _)
BackFill(words, i, effectiveStart, endTime) ==
  IF i >= 1 /\ JsGe(words[i].startTime, effectiveStart) /\ words[i].endTime = Undefined
  THEN BackFill([words EXCEPT ![i].endTime = endTime], i - 1, effectiveStart, endTime)
  ELSE words

XBg == <<"x", "-", "b", "g">>

RECURSIVE traverse(_, _, _, _, _)

\* childNodes.forEach(child => traverse(child, isBg, effectiveStart))
RECURSIVE TraverseChildren(_, _, _, _, _)
TraverseChildren(children, isBg, effectiveStart, words, n) ==
  IF children = <<>> THEN words
  ELSE TraverseChildren(Tail(children), isBg, effectiveStart,
                        traverse(Head(children), isBg, effectiveStart, words, n), n)

\* if (endTime !== undefined) { for ... } on the words after the recursion
ApplyEnd(after, effectiveStart, endTime) ==
  IF endTime # Undefined THEN BackFill(after, Len(after), effectiveStart, endTime)
  ELSE after

\* the element branch of traverse without inheritance: the children get the
\* element's own role and begin only
TraverseElementOwnOnly(el, currentBg, currentStartTime, words, n, startTime, endTime, role) ==
  ApplyEnd(TraverseChildren(el.children, role = XBg,
                            IF startTime # Undefined THEN startTime ELSE 0,
                            words, n),
           IF startTime # Undefined THEN startTime ELSE currentStartTime,
           endTime)

\* the element branch of traverse, for the begin, end and role read from el
TraverseElement(el, currentBg, currentStartTime, words, n, startTime, endTime, role) ==
  ApplyEnd(TraverseChildren(el.children, currentBg \/ role = XBg,
                            IF startTime # Undefined THEN startTime ELSE currentStartTime,
                            words, n),
           IF startTime # Undefined THEN startTime ELSE currentStartTime,
           endTime)

\* the traverse closure: the words after the node has been walked
traverse(node, currentBg, currentStartTime, words, n) ==
  IF node.type = "text"
  THEN IF trim(node.text) # <<>>
       THEN Append(words, [TimedWord(WordId(n, Len(words) + 1), trim(node.text), currentStartTime)
                             EXCEPT !.isBackground = currentBg])
       ELSE words
  ELSE IF node.name \in {<<"", "br">>, <<"", "BR">>, <<"", "Br">>, <<"", "bR">>} THEN words
  ELSE TraverseElement(node, currentBg, currentStartTime, words, n,
                       parseTime(getAttr(node, <<"", "begin">>, "")),
                       parseTime(getAttr(node, <<"", "end">>, "")),
                       OrElse(getAttr(node, <<"", "role">>, "ttm"),
                              getAttr(node, <<"ttm", "role">>, "")))

\* agentMap: the pairs <<xml:id, name>> of the agents declared under head
AgentMap(head) ==
  LET agents == getElementsByTagNameNS(head, "ttm", "agent")
      allAgents == IF Len(agents) > 0 THEN agents
                   ELSE getElementsByTagName(head, <<"ttm", "agent">>)
      entry(agent) ==
        LET id == getAttribute(agent, <<"xml", "id">>)
            byNs == getElementsByTagNameNS(agent, "ttm", "name")
            byName == getElementsByTagName(agent, <<"ttm", "name">>)
            nameTags == IF byNs # <<>> THEN byNs ELSE byName
        IN <<id, IF nameTags # <<>> /\ textContent(nameTags[1]) # <<>>
                 THEN textContent(nameTags[1]) ELSE id>>
      withId == SelectSeq(allAgents, LAMBDA a : getAttribute(a, <<"xml", "id">>) \notin {Null, <<>>})
  IN [i \in 1..Len(withId) |-> entry(withId[i])]

\* agentMap.get(id): the value set last for the key, or undefined
AgentMapGet(agentMap, id) ==
  LET hits == SelectSeq(agentMap, LAMBDA e : e[1] = id)
  IN IF hits = <<>> THEN UndefinedText ELSE hits[Len(hits)][2]

\* x || 0 on a number
OrZero(x) == IF Truthy(x) THEN x ELSE 0

\* the voice taken from the attribute alone, the agent map left unread
VoiceOfAttributeOnly(agentMap, voiceId, mapped) ==
  IF voiceId \notin {Null, <<>>} THEN voiceId ELSE UndefinedText

\* voiceId ? (agentMap.get(voiceId) || voiceId) : undefined
VoiceOf(agentMap, voiceId, mapped) ==
  IF voiceId \notin {Null, <<>>}
  THEN (IF mapped \notin {UndefinedText, <<>>} THEN mapped ELSE voiceId)
  ELSE UndefinedText

\* pRole === 'x-bg' || style?.includes("bg") || textContent?.trim().startsWith('(') || false
IsLineBg(p, pRole, style) ==
  \/ pRole = XBg
  \/ (style # Null /\ includes(style, <<"b", "g">>))
  \/ startsWith(trim(textContent(p)), "(")

\* the attributes kept: those with the itunes: prefix and key
CapturedAttributes(captured) ==
  [i \in 1..Len(captured) |-> <<captured[i].name, captured[i].value>>]

\* the line built for p once its words are known, with push telling whether
\* lines.push is reached
PLine(p, n, pStart, voice, isLineBg, words) ==
  [push |-> (Len(words) > 0 \/ join([j \in 1..Len(words) |-> words[j].text], <<" ">>) # <<>>),
   line |-> [id |-> LineId(n), startTime |-> pStart,
             endTime |-> parseTime(getAttr(p, <<"", "end">>, "")),
             words |-> words,
             rawText |-> join([j \in 1..Len(words) |-> words[j].text], <<" ">>),
             voice |-> voice, isBackground |-> isLineBg,
             hasAttributes |-> TRUE,
             attributes |-> CapturedAttributes(
                              SelectSeq(p.attrs, LAMBDA a : a.name[1] = "itunes"
                                                            \/ a.name = <<"", "key">>))]]

\* the callback of Array.from(ps).forEach for the start time, the voice id
\* and the background flag read from p
LineOfPWith(p, agentMap, n, pStart, voiceId, isLineBg) ==
  PLine(p, n, pStart, VoiceOf(agentMap, voiceId, AgentMapGet(agentMap, voiceId)), isLineBg,
        TraverseChildren(p.children, isLineBg, pStart, <<>>, n))

\* the callback of Array.from(ps).forEach; n is the number of the p element
\* among those the parser visits
LineOfP(p, agentMap, n) ==
  LineOfPWith(p, agentMap, n,
              OrZero(parseTime(getAttr(p, <<"", "begin">>, ""))),
              OrElse(getAttr(p, <<"", "agent">>, "ttm"),
              OrElse(getAttr(p, <<"ttm", "agent">>, ""),
              OrElse(getAttr(p, <<"", "role">>, "ttm"), getAttr(p, <<"ttm", "role">>, "")))),
              IsLineBg(p, OrElse(getAttr(p, <<"", "role">>, "ttm"),
                                 getAttr(p, <<"ttm", "role">>, "")),
                       getAttribute(p, <<"", "style">>)))

\* lines.push(line) under if (words.length > 0 || rawText)
PushIf(lines, r) == IF r.push THEN Append(lines, r.line) ELSE lines

\* Array.from(ps).forEach: the lines pushed for the p elements ps after the
\* lines already pushed; visited is the number of p elements handled before
RECURSIVE LinesOfPs(_, _, _, _)
LinesOfPs(ps, agentMap, lines, visited) ==
  IF ps = <<>> THEN lines
  ELSE LinesOfPs(Tail(ps), agentMap,
                 PushIf(lines, LineOfP(Head(ps), agentMap, visited + 1)), visited + 1)

\* containers.forEach: every p under every container
RECURSIVE LinesOfContainers(_, _, _, _)
LinesOfContainers(containers, agentMap, lines, visited) ==
  IF containers = <<>> THEN lines
  ELSE LinesOfContainers(Tail(containers), agentMap,
                         LinesOfPs(getElementsByTagName(Head(containers), <<"", "p">>),
                                   agentMap, lines, visited),
                         visited + Len(getElementsByTagName(Head(containers), <<"", "p">>)))

\* getMeta(tagName): by namespace, by the ttm prefix, by the plain name
getMeta(head, tagName) ==
  LET t1 == getElementsByTagNameNS(head, "ttm", tagName)
      t2 == getElementsByTagName(head, <<"ttm", tagName>>)
      t3 == getElementsByTagName(head, <<"", tagName>>)
  IN IF t1 # <<>> THEN textContent(t1[1])
     ELSE IF t2 # <<>> THEN textContent(t2[1])
     ELSE IF t3 # <<>> THEN textContent(t3[1])
     ELSE Null

\* the metadata parseTTML reads under head
TtmlMetadata(xmlDoc, head) ==
  LET m0 == [EmptyMetadata EXCEPT !.hasSongwriters = TRUE]
      lang == getAttribute(xmlDoc.documentElement, <<"xml", "lang">>)
      m1 == IF lang \notin {Null, <<>>} THEN [m0 EXCEPT !.language = lang] ELSE m0
      title == getMeta(head, "title")
      m2 == IF title \notin {Null, <<>>} THEN [m1 EXCEPT !.title = title] ELSE m1
      artist == getMeta(head, "artist")
      m3 == IF artist \notin {Null, <<>>} THEN [m2 EXCEPT !.artist = artist] ELSE m2
      plain == getElementsByTagName(head, <<"", "iTunesMetadata">>)
      byNs == getElementsByTagNameNS(head, "itunes", "iTunesMetadata")
      prefixed == getElementsByTagName(head, <<"itunes", "iTunesMetadata">>)
      itunesMeta == IF plain # <<>> THEN plain ELSE IF byNs # <<>> THEN byNs ELSE prefixed
      swPlain == getElementsByTagName(itunesMeta[1], <<"", "songwriters">>)
      swNs == getElementsByTagNameNS(itunesMeta[1], "itunes", "songwriters")
      swContainer == IF swPlain # <<>> THEN swPlain ELSE swNs
      sws == getElementsByTagName(swContainer[1], <<"", "songwriter">>)
      names == SelectSeq([i \in 1..Len(sws) |-> textContent(sws[i])], LAMBDA t : t # <<>>)
  IN IF itunesMeta # <<>> /\ swContainer # <<>> THEN [m3 EXCEPT !.songwriters = names] ELSE m3

\* parseTTML without the return for a missing body: the p elements are
\* then looked for under the document element
parseTTMLWithoutBodyCheck(xmlDoc) ==
  LET heads == DocElementsByTagName(xmlDoc, <<"", "head">>)
      agentMap == IF heads # <<>> THEN AgentMap(heads[1]) ELSE <<>>
      metadata == IF heads # <<>> THEN TtmlMetadata(xmlDoc, heads[1])
                  ELSE [EmptyMetadata EXCEPT !.hasSongwriters = TRUE]
      bodies == DocElementsByTagName(xmlDoc, <<"", "body">>)
      root == IF bodies = <<>> THEN xmlDoc.documentElement ELSE bodies[1]
      divs == getElementsByTagName(root, <<"", "div">>)
      containers == IF Len(divs) > 0 THEN divs ELSE <<root>>
  IN [format |-> "TTML",
      lines |-> SortByStart(LinesOfContainers(containers, agentMap, <<>>, 0)),
      metadata |-> metadata]

parseTTML(xmlDoc) ==
  LET heads == DocElementsByTagName(xmlDoc, <<"", "head">>)
      agentMap == IF heads # <<>> THEN AgentMap(heads[1]) ELSE <<>>
      metadata == IF heads # <<>> THEN TtmlMetadata(xmlDoc, heads[1])
                  ELSE [EmptyMetadata EXCEPT !.hasSongwriters = TRUE]
      bodies == DocElementsByTagName(xmlDoc, <<"", "body">>)
      divs == getElementsByTagName(bodies[1], <<"", "div">>)
      containers == IF Len(divs) > 0 THEN divs ELSE <<bodies[1]>>
  IN IF bodies = <<>> THEN [format |-> "TTML", lines |-> <<>>, metadata |-> metadata]
     ELSE [format |-> "TTML",
           lines |-> SortByStart(LinesOfContainers(containers, agentMap, <<>>, 0)),
           metadata |-> metadata]

\* ------------------------------------------------------------------------
\* Format detection, plain text, parseLyrics
\* ------------------------------------------------------------------------

TtmlRootMarker == <<"<", "t", "t">>

TtmlNamespaceMarker ==
  <<"x", "m", "l", "n", "s", "=", "\"", "h", "t", "t", "p", ":", "/", "/", "w", "w", "w",
    ".", "w", "3", ".", "o", "r", "g", "/", "n", "s", "/", "t", "t", "m", "l", "\"">>

\* /<[0-9]{1,2}:[0-9]{2}(?:\.[0-9]{1,3})?>/.test(text)
ElrcTagTest(text) ==
  \E p \in 1..Len(text) :
    /\ text[p] = "<"
    /\ LET g1 == DigitPrefix(SubSeq(text, p + 1, Len(text)))
           p2 == p + 1 + Len(g1)
           g2 == IF p2 <= Len(text) /\ text[p2] = ":"
                 THEN DigitPrefix(SubSeq(text, p2 + 1, Len(text))) ELSE <<>>
           p3 == p2 + 1 + Len(g2)
           has3 == p3 <= Len(text) /\ text[p3] = "."
           g3 == IF has3 THEN DigitPrefix(SubSeq(text, p3 + 1, Len(text))) ELSE <<>>
           p4 == IF has3 THEN p3 + 1 + Len(g3) ELSE p3
       IN /\ Len(g1) \in 1..2
          /\ Len(g2) = 2
          /\ (has3 => Len(g3) \in 1..3)
          /\ p4 <= Len(text) /\ text[p4] = ">"

\* /\[[0-9]{1,3}:[0-9]{2}/.test(text)
LrcTagTest(text) ==
  \E p \in 1..Len(text) :
    /\ text[p] = "["
    /\ LET g1 == DigitPrefix(SubSeq(text, p + 1, Len(text)))
           p2 == p + 1 + Len(g1)
       IN /\ Len(g1) \in 1..3
          /\ p2 <= Len(text) /\ text[p2] = ":"
          /\ Len(DigitPrefix(SubSeq(text, p2 + 1, Len(text)))) >= 2

\* detectFormat with the test for LRC made before the test for ELRC
detectFormatLrcFirst(text) ==
  IF includes(text, TtmlRootMarker) \/ includes(text, TtmlNamespaceMarker) THEN "TTML"
  ELSE IF LrcTagTest(text) THEN "LRC"
  ELSE IF ElrcTagTest(text) THEN "ELRC"
  ELSE "PLAIN"

detectFormat(text) ==
  IF includes(text, TtmlRootMarker) \/ includes(text, TtmlNamespaceMarker) THEN "TTML"
  ELSE IF ElrcTagTest(text) THEN "ELRC"
  ELSE IF LrcTagTest(text) THEN "LRC"
  ELSE "PLAIN"

\* the default branch of parseLyrics
parsePlain(text) ==
  LET kept == SelectSeq(SplitLines(text), LAMBDA l : trim(l) # <<>>)
  IN [format |-> "PLAIN",
      lines |-> [n \in 1..Len(kept) |->
                   LET ws == SplitWhitespace(trim(kept[n]))
                   IN [id |-> LineId(n), startTime |-> 0, endTime |-> Undefined,
                       words |-> [j \in 1..Len(ws) |-> TimedWord(WordId(n, j), ws[j], 0)],
                       rawText |-> trim(kept[n]), voice |-> <<"v", "1">>,
                       isBackground |-> FALSE, hasAttributes |-> FALSE, attributes |-> <<>>]],
      metadata |-> EmptyMetadata]

(***************************************************************************)
(* parseLyrics(text, format). src is the text together with the document   *)
(* DOMParser.parseFromString builds from it (read by the TTML branch       *)
(* only); format is "" when the caller gives none.                         *)
(***************************************************************************)
parseLyrics(src, format) ==
  LET detected == IF format # "" THEN format ELSE detectFormat(src.text)
  IN CASE detected = "LRC" -> parseLRC(src.text)
       [] detected = "ELRC" -> parseELRC(src.text)
       [] detected = "TTML" -> parseTTML(src.xml)
       [] OTHER -> parsePlain(src.text)

\* ------------------------------------------------------------------------
\* Generators
\* ------------------------------------------------------------------------

\* `[${key}:${value}]\n`
MetaLine(key, value) == <<"[">> \o key \o <<":">> \o value \o <<"]", "\n">>

\* the string of an integer-valued number, with its sign
IntToString(x) ==
  IF x = NaN THEN NumToString(x)
  ELSE IF x < 0 THEN <<"-">> \o NumToString(-x) ELSE NumToString(x)

RECURSIVE CustomLines(_)
CustomLines(custom) ==
  IF custom = <<>> THEN <<>>
  ELSE MetaLine(custom[1][1], custom[1][2]) \o CustomLines(Tail(custom))

\* the metadata block of generateLRC
LrcMetadataBlock(m) ==
  LET author == IF m.author # <<>> THEN m.author
                ELSE IF m.hasSongwriters THEN join(m.songwriters, <<",", " ">>) ELSE <<>>
  IN (IF m.title # <<>> THEN MetaLine(<<"t", "i">>, m.title) ELSE <<>>)
     \o (IF m.artist # <<>> THEN MetaLine(<<"a", "r">>, m.artist) ELSE <<>>)
     \o (IF m.album # <<>> THEN MetaLine(<<"a", "l">>, m.album) ELSE <<>>)
     \o (IF author # <<>> THEN MetaLine(<<"a", "u">>, author) ELSE <<>>)
     \o (IF m.createdBy # <<>> THEN MetaLine(<<"b", "y">>, m.createdBy) ELSE <<>>)
     \o (IF m.offset \notin {0, NaN}
         THEN MetaLine(<<"o", "f", "f", "s", "e", "t">>, IntToString(m.offset)) ELSE <<>>)
     \o (IF m.language # <<>> THEN MetaLine(<<"l", "a">>, m.language) ELSE <<>>)
     \o CustomLines(m.custom)

\* `[${formatTimestamp(line.startTime, 2)}]${line.rawText}\n`
LrcLine(line) == <<"[">> \o formatTimestamp(line.startTime, 2) \o <<"]">> \o line.rawText \o <<"\n">>

RECURSIVE LrcLines(_)
LrcLines(lines) == IF lines = <<>> THEN <<>> ELSE LrcLine(Head(lines)) \o LrcLines(Tail(lines))

generateLRC(doc) == LrcMetadataBlock(doc.metadata) \o LrcLines(doc.lines)

\* ` <${formatTimestamp(w.startTime, 2)}>${w.text}` for every word
RECURSIVE ElrcWords(_)
ElrcWords(words) ==
  IF words = <<>> THEN <<>>
  ELSE <<" ", "<">> \o formatTimestamp(Head(words).startTime, 2) \o <<">">>
         \o Head(words).text \o ElrcWords(Tail(words))

\* the output of one line of generateELRC
ElrcLine(line) ==
  <<"[">> \o formatTimestamp(line.startTime, 2) \o <<"]">> \o ElrcWords(line.words) \o <<"\n">>

RECURSIVE ElrcLines(_)
ElrcLines(lines) ==
  IF lines = <<>> THEN <<>> ELSE ElrcLine(Head(lines)) \o ElrcLines(Tail(lines))

\* the metadata block of generateELRC
ElrcMetadataBlock(m) ==
  (IF m.title # <<>> THEN MetaLine(<<"t", "i">>, m.title) ELSE <<>>)
    \o (IF m.artist # <<>> THEN MetaLine(<<"a", "r">>, m.artist) ELSE <<>>)
    \o (IF m.album # <<>> THEN MetaLine(<<"a", "l">>, m.album) ELSE <<>>)

generateELRC(doc) == ElrcMetadataBlock(doc.metadata) \o ElrcLines(doc.lines)

(***************************************************************************)
(* generateTTML. The model gives the text by the document DOMParser builds *)
(* from it, for documents whose texts hold no markup character (the        *)
(* generator escapes none). Of the white space of the template only the    *)
(* text nodes under p are kept, the only ones parseTTML reads; the         *)
(* namespace declarations are carried by the ns fields.                    *)
(***************************************************************************)

\* l.voice || 'v1'
VoiceOrV1(l) == IF l.voice \in {UndefinedText, <<>>} THEN <<"v", "1">> ELSE l.voice

\* Array.from(new Set(values)): the values in the order of first occurrence
RECURSIVE Distinct(_)
Distinct(values) ==
  IF values = <<>> THEN <<>>
  ELSE LET front == Distinct(SubSeq(values, 1, Len(values) - 1))
       IN IF \E i \in 1..Len(front) : front[i] = values[Len(values)] THEN front
          ELSE Append(front, values[Len(values)])

\* voices of generateTTML
TtmlVoices(doc) == Distinct([i \in 1..Len(doc.lines) |-> VoiceOrV1(doc.lines[i])])

\* agentMap.get(v) of generateTTML for a voice v of voices: `v${i+1}`
AgentIdFor(voices, v) ==
  <<"v">> \o NatToString(CHOOSE i \in 1..Len(voices) : voices[i] = v)

\* hasWordSync ? "Word" : "Line"
TimingMode(doc) ==
  IF \E i \in 1..Len(doc.lines) :
       /\ Len(doc.lines[i].words) > 1
       /\ \E j \in 1..Len(doc.lines[i].words) :
            JsLt(JsAdd(doc.lines[i].startTime, TicksPerSec \div 20),
                 doc.lines[i].words[j].startTime)
  THEN <<"W", "o", "r", "d">> ELSE <<"L", "i", "n", "e">>

\* songwriters of generateTTML
TtmlSongwriters(m) ==
  IF m.hasSongwriters THEN m.songwriters
  ELSE IF m.author # <<>> THEN SplitAuthors(m.author) ELSE <<>>

PersonType == Attr(<<"", "type">>, "", <<"p", "e", "r", "s", "o", "n">>)

\* <ttm:agent type="person" xml:id="${id}"><ttm:name type="full">${name}</ttm:name></ttm:agent>
AgentElement(id, name) ==
  Element(<<"ttm", "agent">>, "ttm", <<PersonType, Attr(<<"xml", "id">>, "xml", id)>>,
          <<Element(<<"ttm", "name">>, "ttm", <<Attr(<<"", "type">>, "", <<"f", "u", "l", "l">>)>>,
                    IF name = <<>> THEN <<>> ELSE <<TextNode(name)>>)>>)

\* the head element of the template
TtmlHead(doc, voices) ==
  Element(<<"", "head">>, "tt", <<>>,
    <<Element(<<"", "metadata">>, "tt", <<>>,
        (IF doc.metadata.title # <<>>
         THEN <<Element(<<"", "title">>, "tt", <<>>, <<TextNode(doc.metadata.title)>>)>>
         ELSE <<>>)
        \o (IF doc.metadata.artist # <<>>
            THEN <<AgentElement(<<"a", "r", "t", "i", "s", "t">>, doc.metadata.artist)>>
            ELSE <<>>)
        \o [i \in 1..Len(voices) |-> AgentElement(AgentIdFor(voices, voices[i]), voices[i])]
        \o <<Element(<<"", "iTunesMetadata">>, "tt", <<>>,
               <<Element(<<"", "songwriters">>, "tt", <<>>,
                   [i \in 1..Len(TtmlSongwriters(doc.metadata)) |->
                      Element(<<"", "songwriter">>, "tt", <<>>,
                              IF TtmlSongwriters(doc.metadata)[i] = <<>> THEN <<>>
                              ELSE <<TextNode(TtmlSongwriters(doc.metadata)[i])>>)])>>)>>),
      Element(<<"", "styling">>, "tt", <<>>,
        <<Element(<<"", "style">>, "tt", <<Attr(<<"xml", "id">>, "xml", <<"d", "e", "f", "a", "u", "l", "t">>)>>, <<>>)>>),
      Element(<<"", "layout">>, "tt", <<>>,
        <<Element(<<"", "region">>, "tt", <<Attr(<<"xml", "id">>, "xml", <<"b", "o", "t", "t", "o", "m">>)>>, <<>>)>>)>>)

\* <span begin="${wStart}" end="${wEnd}"${bgRole}>${w.text}</span>
SpanOfWord(w) ==
  Element(<<"", "span">>, "tt",
          <<Attr(<<"", "begin">>, "", formatTimestamp(w.startTime, 3)),
            Attr(<<"", "end">>, "",
                 IF Truthy(w.endTime) THEN formatTimestamp(w.endTime, 3)
                 ELSE formatTimestamp(JsAdd(w.startTime, TicksPerSec \div 2), 3))>>
            \o (IF w.isBackground THEN <<Attr(<<"ttm", "role">>, "ttm", XBg)>> ELSE <<>>),
          IF w.text = <<>> THEN <<>> ELSE <<TextNode(w.text)>>)

\* the children of a p: a line feed and the indentation before each span
\* and before the closing tag
RECURSIVE SpansOfWords(_)
SpansOfWords(words) ==
  IF words = <<>> THEN <<TextNode(<<"\n", " ", " ", " ", " ", " ", " ">>)>>
  ELSE <<TextNode(<<"\n", " ", " ", " ", " ", " ", " ", " ", " ">>), SpanOfWord(Head(words))>> \o SpansOfWords(Tail(words))

\* attrStr: the attributes kept from a parse, else itunes:key="L${i+1}"
ReconstructedAttributes(line, i) ==
  IF line.hasAttributes
  THEN [k \in 1..Len(line.attributes) |->
          Attr(line.attributes[k][1], line.attributes[k][1][1], line.attributes[k][2])]
  ELSE <<Attr(<<"itunes", "key">>, "itunes", <<"L">> \o NatToString(i))>>

\* the p element of line i (1-based) of doc
POfLine(doc, voices, i) ==
  Element(<<"", "p">>, "tt",
          <<Attr(<<"", "begin">>, "", formatTimestamp(doc.lines[i].startTime, 3)),
            Attr(<<"", "end">>, "",
                 IF Truthy(doc.lines[i].endTime) THEN formatTimestamp(doc.lines[i].endTime, 3)
                 ELSE IF i < Len(doc.lines) /\ Truthy(doc.lines[i + 1].startTime)
                 THEN formatTimestamp(doc.lines[i + 1].startTime, 3)
                 ELSE formatTimestamp(JsAdd(doc.lines[i].startTime, 5 * TicksPerSec), 3)),
            Attr(<<"ttm", "agent">>, "ttm", AgentIdFor(voices, VoiceOrV1(doc.lines[i])))>>
            \o ReconstructedAttributes(doc.lines[i], i),
          SpansOfWords(doc.lines[i].words))

\* the document DOMParser builds from the text generateTTML returns
TtmlDocument(doc, voices) ==
  [documentElement |->
     Element(<<"", "tt">>, "tt",
             <<Attr(<<"itunes", "timing">>, "itunes", TimingMode(doc)),
               Attr(<<"xml", "lang">>, "xml",
                    IF doc.metadata.language # <<>> THEN doc.metadata.language
                    ELSE <<"e", "n">>)>>,
             <<TtmlHead(doc, voices),
               Element(<<"", "body">>, "tt", <<Attr(<<"", "region">>, "", <<"b", "o", "t", "t", "o", "m">>)>>,
                 <<Element(<<"", "div">>, "tt",
                           <<Attr(<<"itunes", "songPart">>, "itunes", <<"V", "e", "r", "s", "e">>)>>,
                           [i \in 1..Len(doc.lines) |-> POfLine(doc, voices, i)])>>)>>)]

\* generateTTML(doc): the opening of the root element, which detectFormat
\* reads, and the document DOMParser builds from the whole text
generateTTML(doc) ==
  [text |-> TtmlRootMarker \o <<" ">> \o TtmlNamespaceMarker \o <<">">>,
   xml |-> TtmlDocument(doc, TtmlVoices(doc))]

\* ------------------------------------------------------------------------
\* Shift utility
\* ------------------------------------------------------------------------

\* the word built by w => ({...w, startTime: ..., endTime: ...})
ShiftWord(w, offsetSeconds) ==
  [w EXCEPT
     !.startTime = MathMax0(JsAdd(w.startTime, offsetSeconds)),
     !.endTime = IF Truthy(w.endTime) THEN MathMax0(JsAdd(w.endTime, offsetSeconds))
                 ELSE Undefined]

\* the shifted line with Math.abs in the place of Math.max(0, ...)
ShiftLineAbs(line, offsetSeconds) ==
  [line EXCEPT
     !.startTime = IF JsAdd(line.startTime, offsetSeconds) = NaN THEN NaN
                   ELSE IF JsAdd(line.startTime, offsetSeconds) < 0
                   THEN 0 - JsAdd(line.startTime, offsetSeconds)
                   ELSE JsAdd(line.startTime, offsetSeconds),
     !.endTime = IF Truthy(line.endTime) THEN MathMax0(JsAdd(line.endTime, offsetSeconds))
                 ELSE Undefined,
     !.words = [j \in 1..Len(line.words) |-> ShiftWord(line.words[j], offsetSeconds)]]

\* the line built by line => ({...line, startTime: ..., endTime: ..., words: ...})
ShiftLine(line, offsetSeconds) ==
  [line EXCEPT
     !.startTime = MathMax0(JsAdd(line.startTime, offsetSeconds)),
     !.endTime = IF Truthy(line.endTime) THEN MathMax0(JsAdd(line.endTime, offsetSeconds))
                 ELSE Undefined,
     !.words = [j \in 1..Len(line.words) |-> ShiftWord(line.words[j], offsetSeconds)]]

\* shiftTimestamps written without the spread of the line: the fields that
\* are not recomputed are lost
shiftTimestampsNoSpread(doc, offsetSeconds) ==
  [doc EXCEPT !.lines =
     [i \in 1..Len(doc.lines) |->
        [ShiftLine(doc.lines[i], offsetSeconds) EXCEPT
           !.voice = UndefinedText, !.isBackground = FALSE,
           !.hasAttributes = FALSE, !.attributes = <<>>]]]

shiftTimestamps(doc, offsetSeconds) ==
  [doc EXCEPT !.lines = [i \in 1..Len(doc.lines) |-> ShiftLine(doc.lines[i], offsetSeconds)]]

\* ------------------------------------------------------------------------
\* The editor (components/LyricsEditor.tsx)
\* ------------------------------------------------------------------------

\* generateId() in the editor: the k-th identifier drawn
EditorId(k) == <<0, 0, k>>

\* text.split(/\s+/).filter(Boolean)
Tokens(text) == SelectSeq(SplitWhitespace(text), LAMBDA w : w # <<>>)

\* { ...l, ...updates } for the updates the editor passes to updateLine
ApplyLineUpdates(l, updates) ==
  [l EXCEPT !.rawText = IF "rawText" \in DOMAIN updates THEN updates.rawText ELSE @,
            !.words = IF "words" \in DOMAIN updates THEN updates.words ELSE @,
            !.voice = IF "voice" \in DOMAIN updates THEN updates.voice ELSE @,
            !.isBackground = IF "isBackground" \in DOMAIN updates
                             THEN updates.isBackground ELSE @]

updateLine(doc, lineId, updates) ==
  [doc EXCEPT !.lines = [i \in 1..Len(@) |->
                           IF @[i].id = lineId THEN ApplyLineUpdates(@[i], updates) ELSE @[i]]]

deleteLine(doc, lineId) ==
  [doc EXCEPT !.lines = SelectSeq(@, LAMBDA l : l.id # lineId)]

\* the line addLine builds after prevLine (hasPrev tells whether
\* doc.lines[afterIndex] exists); every caller leaves specificStartTime and
\* initialText to their defaults
AddedLine(hasPrev, prevLine, id) ==
  [id |-> id,
   startTime |-> IF hasPrev THEN JsAdd(prevLine.startTime, 2 * TicksPerSec) ELSE 0,
   endTime |-> Undefined, words |-> <<>>, rawText |-> <<>>,
   voice |-> IF hasPrev THEN prevLine.voice ELSE UndefinedText,
   isBackground |-> FALSE, hasAttributes |-> FALSE, attributes |-> <<>>]

\* newLines.splice(index, 0, newLine) for a 0-based index
SpliceIn(lines, index, newLine) ==
  SubSeq(lines, 1, index) \o <<newLine>> \o SubSeq(lines, index + 1, Len(lines))

\* addLine(afterIndex) for a 0-based afterIndex (-1 on an empty document)
addLine(doc, afterIndex, id) ==
  [doc EXCEPT !.lines =
     SpliceIn(@, afterIndex + 1,
              AddedLine(afterIndex >= 0 /\ afterIndex < Len(@),
                        IF afterIndex >= 0 /\ afterIndex < Len(@) THEN @[afterIndex + 1]
                        ELSE <<>>,
                        id))]

\* the words handleEnterKey and the textarea's onChange build for tokens:
\* the i-th keeps the i-th old word with the new text, a further one is new
RetextedWords(tokens, oldWords, startTime, isBackground, nextId) ==
  [i \in 1..Len(tokens) |->
     IF i <= Len(oldWords) THEN [oldWords[i] EXCEPT !.text = tokens[i]]
     ELSE [TimedWord(EditorId(nextId + i), tokens[i], startTime)
             EXCEPT !.isBackground = isBackground]]

\* the two lines handleEnterKey puts in the place of line
SplitLine(line, textBefore, textAfter, nextId) ==
  <<[line EXCEPT !.rawText = textBefore,
                 !.words = RetextedWords(Tokens(textBefore), line.words, line.startTime,
                                         FALSE, nextId)],
    [id |-> EditorId(nextId),
     startTime |-> JsAdd(line.startTime, TicksPerSec \div 2),
     endTime |-> Undefined,
     words |-> RetextedWords(Tokens(textAfter), <<>>,
                             JsAdd(line.startTime, TicksPerSec \div 2), FALSE,
                             nextId + Len(Tokens(textBefore))),
     rawText |-> textAfter, voice |-> line.voice,
     isBackground |-> FALSE, hasAttributes |-> FALSE, attributes |-> <<>>]>>

\* handleEnterKey for Enter without Shift, the cursor at the 0-based
\* cursorPosition of the line's rawText
EnterAt(doc, lineIdx, textBefore, textAfter, nextId) ==
  IF textAfter = <<>> /\ textBefore = <<>> THEN addLine(doc, lineIdx, EditorId(nextId))
  ELSE [doc EXCEPT !.lines =
          SubSeq(@, 1, lineIdx)
            \o SplitLine(@[lineIdx + 1], textBefore, textAfter, nextId)
            \o SubSeq(@, lineIdx + 2, Len(@))]

handleEnterKey(doc, lineIdx, cursorPosition, nextId) ==
  EnterAt(doc, lineIdx,
          trim(SubSeq(doc.lines[lineIdx + 1].rawText, 1, cursorPosition)),
          trim(substring(doc.lines[lineIdx + 1].rawText, cursorPosition)),
          nextId)

\* words.map(w => w.text).join(' ')
JoinedTexts(words) == join([j \in 1..Len(words) |-> words[j].text], <<" ">>)

\* the early returns of moveWord
MoveWordReturns(doc, lineIndex, direction) ==
  \/ direction = "up" /\ lineIndex <= 0
  \/ direction = "down" /\ lineIndex >= Len(doc.lines) - 1
  \/ doc.lines[lineIndex + 1].words = <<>>

\* moveWord 'up': the first word of currentLine goes to the end of targetLine
MoveUp(currentLine, targetLine) ==
  <<[targetLine EXCEPT !.words = Append(@, currentLine.words[1]),
                       !.rawText = JoinedTexts(Append(targetLine.words, currentLine.words[1]))],
    [currentLine EXCEPT !.words = Tail(@),
                        !.rawText = JoinedTexts(Tail(currentLine.words)),
                        !.startTime = IF Tail(currentLine.words) # <<>>
                                      THEN Tail(currentLine.words)[1].startTime ELSE @]>>

\* moveWord 'down': the last word of currentLine goes to the start of targetLine
MoveDown(currentLine, targetLine) ==
  <<[currentLine EXCEPT !.words = SubSeq(@, 1, Len(@) - 1),
                        !.rawText = JoinedTexts(SubSeq(currentLine.words, 1,
                                                       Len(currentLine.words) - 1))],
    [targetLine EXCEPT !.words = <<currentLine.words[Len(currentLine.words)]>> \o @,
                       !.rawText = JoinedTexts(<<currentLine.words[Len(currentLine.words)]>>
                                               \o targetLine.words),
                       !.startTime = currentLine.words[Len(currentLine.words)].startTime]>>

\* moveWord(lineIndex, direction) past its early returns, lineIndex 0-based
moveWord(doc, lineIndex, direction) ==
  [doc EXCEPT !.lines =
     IF direction = "up"
     THEN SubSeq(@, 1, lineIndex - 1) \o MoveUp(@[lineIndex + 1], @[lineIndex])
            \o SubSeq(@, lineIndex + 2, Len(@))
     ELSE SubSeq(@, 1, lineIndex) \o MoveDown(@[lineIndex + 1], @[lineIndex + 2])
            \o SubSeq(@, lineIndex + 3, Len(@))]

\* { ...word, ...updates } for the updates the editor passes to updateWord
ApplyWordUpdates(word, updates) ==
  [word EXCEPT !.text = IF "text" \in DOMAIN updates THEN updates.text ELSE @,
               !.startTime = IF "startTime" \in DOMAIN updates THEN updates.startTime ELSE @,
               !.isBackground = IF "isBackground" \in DOMAIN updates
                                THEN updates.isBackground ELSE @]

\* the line updateWord writes back for the new words
LineOfUpdatedWord(line, newWords, wordIndex, updates) ==
  [line EXCEPT
     !.words = newWords,
     !.rawText = IF "text" \in DOMAIN updates /\ updates.text # <<>>
                 THEN JoinedTexts(newWords) ELSE @,
     !.startTime = IF wordIndex = 0 /\ "startTime" \in DOMAIN updates
                      /\ Truthy(updates.startTime)
                   THEN updates.startTime ELSE @]

\* updateWord(lineIndex, wordIndex, updates), both indexes 0-based
updateWord(doc, lineIndex, wordIndex, updates) ==
  [doc EXCEPT !.lines[lineIndex + 1] =
     LineOfUpdatedWord(@, [@.words EXCEPT ![wordIndex + 1] = ApplyWordUpdates(@, updates)],
                       wordIndex, updates)]

\* handleBatchShift(direction) with shiftOffset the text of the shift input
handleBatchShift(doc, shiftOffset, direction) ==
  shiftTimestamps(doc, JsTimes(parseTimestamp(shiftOffset), direction))

\* the updates of the textarea's onChange for the value typed
TextareaUpdates(line, value, nextId) ==
  [rawText |-> value,
   words |-> RetextedWords(Tokens(value), line.words, line.startTime, line.isBackground,
                           nextId)]

\* ------------------------------------------------------------------------
\* State
\* ------------------------------------------------------------------------

VARIABLES
  codecOp,        \* "toFormat", "toParse" (an input is drawn), then the call
                  \* made: "format", "roundtrip" or "parse"
  codecSeconds,   \* the number given to formatTimestamp
  codecPrecision, \* the precision given to formatTimestamp
  codecText,      \* the string formatTimestamp returned / parseTimestamp was given
  codecParsed,    \* the number parseTimestamp returned
  shiftOp,        \* "idle", "toShift" (an input is drawn) or "shift"
  shiftDoc,       \* the document given to shiftTimestamps
  shiftOffset,    \* the offset given to shiftTimestamps
  shiftResult,    \* the document shiftTimestamps returned
  parseOp,        \* "idle", "toParse" (an input is drawn) or "parsed"
  parseSrc,       \* the text given to parseLyrics, with the document
                  \* DOMParser builds from it
  parseFormat,    \* the format given to parseLyrics, "" for none
  parseDoc,       \* the document parseLyrics returned
  rtOp,           \* "idle", "toGenerate" (an input is drawn), "generated",
                  \* "reparsed" or "regenerated"
  rtDoc,          \* the document given to generateLRC
  rtText,         \* the text generateLRC returned for rtDoc
  rtParsed,       \* the document parseLyrics returned for rtText
  rtText2,        \* the text generateLRC returned for rtParsed
  lrcOp,          \* "idle", "lines" (parseLRC is in rawLines.forEach) or "returned"
  lrcRawLines,    \* rawLines of the running parseLRC
  lrcPos,         \* the number of raw lines the forEach has handled
  lrcState,       \* lines, metadata and lineTimeRegex.lastIndex of the running parseLRC
  lrcDoc,         \* the document parseLRC returned
  edOp,           \* "idle", "open" (a parsed document is in the editor) or
                  \* the name of the last operation of the editor
  edDoc,          \* the document the editor shows (the doc prop)
  edSteps,        \* the number of operations made in the editor
  edNextId,       \* the number of identifiers generateId has drawn
  exOp,           \* "idle", "toExport" (a document is drawn), then the last
                  \* call made: "lrc", "elrc", "ttml" or "reparsed"
  exDoc,          \* the document given to the generators
  exLrc,          \* the text generateLRC returned
  exElrc,         \* the text generateELRC returned
  exTtml,         \* the text generateTTML returned, with the document
                  \* DOMParser builds from it
  exParsed,       \* the document parseLyrics returned for exTtml
  hsOp,           \* "idle", or "ready" once App has initialized the history
  lyricsDoc,      \* the document App shows
  history,        \* the snapshots, oldest first
  historyIndex,   \* the position of the current snapshot in history, from 0
  isUndoRedoAction, \* isUndoRedoAction.current
  hsSteps         \* the number of updates, undos and redos made

codecVars == <<codecOp, codecSeconds, codecPrecision, codecText, codecParsed>>

shiftVars == <<shiftOp, shiftDoc, shiftOffset, shiftResult>>

parseVars == <<parseOp, parseSrc, parseFormat, parseDoc>>

roundTripVars == <<rtOp, rtDoc, rtText, rtParsed, rtText2>>

lrcVars == <<lrcOp, lrcRawLines, lrcPos, lrcState, lrcDoc>>

editorVars == <<edOp, edDoc, edSteps, edNextId>>

exportVars == <<exOp, exDoc, exLrc, exElrc, exTtml, exParsed>>

historyVars == <<hsOp, lyricsDoc, history, historyIndex, isUndoRedoAction, hsSteps>>

vars == <<codecVars, shiftVars, parseVars, roundTripVars, lrcVars, editorVars, exportVars, historyVars>>

EmptyDoc == [format |-> "PLAIN", lines |-> <<>>, metadata |-> EmptyMetadata]

\* ------------------------------------------------------------------------
\* Timestamp codec: the inputs and the calls
\* ------------------------------------------------------------------------

MaxCentis == 100

MaxRawLen == 4

\* the seconds given to formatTimestamp: every centisecond up to MaxCentis,
\* with and without a rest below the centisecond and the millisecond, below
\* and above one minute and one hour; a negative; the non-finite numbers
CodecSeconds ==
  {base + c * 100 + rest :
     base \in {0, 60 * TicksPerSec, 3600 * TicksPerSec, 3661 * TicksPerSec},
     c \in 0..MaxCentis,
     rest \in {0, 1, 10, 55}}
  \cup {-1, -5 * TicksPerSec, NaN, PosInf, NegInf}

CodecAlphabet == {"1", "5", "a", ":", ".", "[", " "}

RECURSIVE StringsUpTo(_, _)
StringsUpTo(alphabet, n) ==
  IF n = 0 THEN {<<>>}
  ELSE LET shorter == StringsUpTo(alphabet, n - 1)
       IN shorter \cup {Append(t, c) : t \in shorter, c \in alphabet}

CodecStrings == StringsUpTo(CodecAlphabet, MaxRawLen)

CodecIdle ==
  /\ codecOp = "idle"
  /\ codecSeconds = 0
  /\ codecPrecision = 2
  /\ codecText = <<>>
  /\ codecParsed = 0

\* a call of formatTimestamp or of parseTimestamp is about to be made
CodecInit ==
  /\ codecParsed = 0
  /\ \/ /\ codecOp = "toFormat"
        /\ codecSeconds \in CodecSeconds
        /\ codecPrecision \in {2, 3}
        /\ codecText = <<>>
     \/ /\ codecOp = "toParse"
        /\ codecSeconds = 0
        /\ codecPrecision = 2
        /\ codecText \in CodecStrings

FormatTimestamp ==
  /\ codecOp = "toFormat"
  /\ codecText' = formatTimestamp(codecSeconds, codecPrecision)
  /\ codecOp' = "format"
  /\ UNCHANGED <<codecSeconds, codecPrecision, codecParsed>>
  /\ UNCHANGED <<shiftVars, parseVars, roundTripVars, lrcVars, editorVars, exportVars, historyVars>>

\* parseTimestamp applied to what formatTimestamp returned
ParseFormatted ==
  /\ codecOp = "format"
  /\ codecParsed' = parseTimestamp(codecText)
  /\ codecOp' = "roundtrip"
  /\ UNCHANGED <<codecSeconds, codecPrecision, codecText>>
  /\ UNCHANGED <<shiftVars, parseVars, roundTripVars, lrcVars, editorVars, exportVars, historyVars>>

ParseTimestamp ==
  /\ codecOp = "toParse"
  /\ codecParsed' = parseTimestamp(codecText)
  /\ codecOp' = "parse"
  /\ UNCHANGED <<codecSeconds, codecPrecision, codecText>>
  /\ UNCHANGED <<shiftVars, parseVars, roundTripVars, lrcVars, editorVars, exportVars, historyVars>>

CodecNext == FormatTimestamp \/ ParseFormatted \/ ParseTimestamp

\* ------------------------------------------------------------------------
\* Shift utility: the inputs and the call
\* ------------------------------------------------------------------------

ShiftIdle ==
  /\ shiftOp = "idle"
  /\ shiftDoc = EmptyDoc
  /\ shiftOffset = 0
  /\ shiftResult = EmptyDoc

MaxShiftLines == 2

MaxShiftSeconds == 2

MaxShiftOffset == 3

\* a line that starts at `start`; ek chooses its end time (absent, 0, one
\* second after the start) and wk its words (none; one word that ends at 0;
\* two words, the second a background word without an end time)
ShiftSampleLine(n, start, ek, wk) ==
  LET half == TicksPerSec \div 2
      words ==
        CASE wk = 0 -> <<>>
          [] wk = 1 -> <<[TimedWord(WordId(n, 1), <<"a">>, start) EXCEPT !.endTime = 0]>>
          [] OTHER -> <<[TimedWord(WordId(n, 1), <<"a">>, start) EXCEPT !.endTime = start + half],
                        [TimedWord(WordId(n, 2), <<"b">>, start + half) EXCEPT !.isBackground = TRUE]>>
  IN [id |-> LineId(n), startTime |-> start,
      endTime |-> CASE ek = 0 -> Undefined [] ek = 1 -> 0 [] OTHER -> start + TicksPerSec,
      words |-> words,
      rawText |-> IF words = <<>> THEN <<"x">>
                  ELSE join([j \in 1..Len(words) |-> words[j].text], <<" ">>),
      voice |-> CASE ek = 0 -> <<"v", "1">> [] ek = 1 -> UndefinedText [] OTHER -> <<"N">>,
      isBackground |-> (wk = 1),
      hasAttributes |-> (ek = 2),
      attributes |-> IF ek = 2 THEN <<<<<<"k">>, <<"L">>>>>> ELSE <<>>]

ShiftStarts == {sec * TicksPerSec : sec \in 0..MaxShiftSeconds}

\* the documents given to shiftTimestamps: up to MaxShiftLines lines in
\* ascending order of start time
ShiftDocs ==
  LET shapes == UNION {[1..n -> ShiftStarts \X (0..2) \X (0..2)] : n \in 0..MaxShiftLines}
      sorted == {f \in shapes : \A i \in 1..(Len(f) - 1) : f[i][1] <= f[i + 1][1]}
  IN {[format |-> "LRC",
       lines |-> [i \in 1..Len(f) |-> ShiftSampleLine(i, f[i][1], f[i][2], f[i][3])],
       metadata |-> [EmptyMetadata EXCEPT !.title = <<"T">>]] : f \in sorted}

\* offsets in half seconds, negative, zero and positive
ShiftOffsets == {h * (TicksPerSec \div 2) : h \in (-MaxShiftOffset)..MaxShiftOffset}

\* a call of shiftTimestamps is about to be made
ShiftInit ==
  /\ shiftOp = "toShift"
  /\ shiftDoc \in ShiftDocs
  /\ shiftOffset \in ShiftOffsets
  /\ shiftResult = EmptyDoc

ShiftTimestamps ==
  /\ shiftOp = "toShift"
  /\ shiftResult' = shiftTimestamps(shiftDoc, shiftOffset)
  /\ shiftOp' = "shift"
  /\ UNCHANGED <<shiftDoc, shiftOffset>>
  /\ UNCHANGED <<codecVars, parseVars, roundTripVars, lrcVars, editorVars, exportVars, historyVars>>

ShiftNext == ShiftTimestamps

\* ------------------------------------------------------------------------
\* parseLyrics: the inputs and the call
\* ------------------------------------------------------------------------

MaxRawLines == 2

MaxTtmlPs == 2

\* raw lines of LRC, ELRC and plain text
RawLineSamples ==
  <<
     <<"[", "0", "0", ":", "0", "1", ".", "0", "0", "]", "a">>,  \* one timestamp
     <<"[", "0", "0", ":", "0", "2", ".", "0", "0", "]", "[", "0", "0", ":", "0", "1", ".", "0", "0", "]", "a", " ", "b">>,  \* two timestamps, the later one first
     <<"[", "0", "0", ":", "0", "2", ".", "0", "0", "]", "N", ":", " ", "c">>,  \* a voice prefix
     <<"[", "0", "0", ":", "0", "1", ".", "5", "0", "]", "<", "0", "0", ":", "0", "1", ".", "5", "0", ">", "a", " ", "<", "0", "0", ":", "0", "1", ".", "8", "0", ">", "b">>,  \* word tags
     <<"[", "0", "0", ":", "0", "1", ".", "0", "0", "]", "a", " ", "[", "0", "0", ":", "0", "3", ".", "0", "0", "]">>,  \* a timestamp after the text
     <<"x", " ", "[", "0", "0", ":", "0", "2", ".", "0", "0", "]">>,  \* no leading timestamp, a timestamp after the text
     <<"[", "t", "i", ":", "t", "]">>,  \* a title
     <<>>,  \* an empty raw line
     <<"[", "0", "1", ":", "0", "0", ":", "0", "0", ".", "0", "0", "]", "(", "a", ")">>,  \* hours, a background line
     <<"a">>,  \* plain text
     <<"[", "0", "0", ":", "0", "2", ".", "0", "0", "]">>,  \* a timestamp and no text
     <<"[", "a", "u", ":", "x", ",", " ", "y", "]">>,  \* authors
     <<"[", "0", "0", ":", "0", "1", ".", "0", "0", "]", "a", " ", "<", "1", ":", "2", " ", "b">>,  \* an opened word tag that is never closed
     <<"[", "0", "0", ":", "0", "3", ".", "0", "0", "]", "[", "0", "0", ":", "0", "1", ".", "0", "0", "]", "x", " ", "<", "0", "0", ":", "0", "2", ".", "0", "0", ">", "y">>,  \* two timestamps, text before the one word tag
     <<"a", " ", " ", "b">>,  \* plain text, two spaces between the words
     <<"[", "K", "e", "y", ":", "v", "]">>  \* a tag the parser has no field for
  >>

\* the rawLines a text of up to MaxRawLines sample lines splits into
RawLineSeqs ==
  UNION {[1..n -> {RawLineSamples[i] : i \in 1..Len(RawLineSamples)}] : n \in 0..MaxRawLines}

\* the document DOMParser returns for a text that is not XML
NotXml == [documentElement |-> Element(<<"", "parsererror">>, "", <<>>, <<>>)]

\* the texts that are not TTML, each with the document DOMParser builds
TextSources == {[text |-> join(rawLines, <<"\n">>), xml |-> NotXml] : rawLines \in RawLineSeqs}

Span(attrs, children) == Element(<<"", "span">>, "tt", attrs, children)

Begin(value) == Attr(<<"", "begin">>, "", value)

End(value) == Attr(<<"", "end">>, "", value)

\* the p elements of the TTML documents
PSamples ==
  <<
     \* two timed words
     Element(<<"", "p">>, "tt", <<Begin(<<"0", "0", ":", "0", "2", ".", "0", "0", "0">>), End(<<"0", "0", ":", "0", "3", ".", "0", "0", "0">>)>>,
             <<Span(<<Begin(<<"0", "0", ":", "0", "2", ".", "0", "0", "0">>), End(<<"0", "0", ":", "0", "2", ".", "5", "0", "0">>)>>, <<TextNode(<<"a">>)>>),
               TextNode(<<" ">>),
               Span(<<Begin(<<"0", "0", ":", "0", "2", ".", "5", "0", "0">>), End(<<"0", "0", ":", "0", "3", ".", "0", "0", "0">>)>>, <<TextNode(<<"b">>)>>)>>),
     \* times in seconds, an agent, text directly under p
     Element(<<"", "p">>, "tt", <<Begin(<<"1", "s">>), End(<<"2", "s">>),
                               Attr(<<"ttm", "agent">>, "ttm", <<"v", "1">>)>>,
             <<TextNode(<<"c">>)>>),
     \* the same start time, a background span, an itunes:key attribute
     Element(<<"", "p">>, "tt", <<Begin(<<"0", "0", ":", "0", "1", ".", "0", "0", "0">>),
                               Attr(<<"itunes", "key">>, "itunes", <<"L", "1">>)>>,
             <<Span(<<Attr(<<"ttm", "role">>, "ttm", XBg)>>, <<TextNode(<<"d">>)>>)>>),
     \* no begin attribute
     Element(<<"", "p">>, "tt", <<>>, <<TextNode(<<"e">>)>>),
     \* no text: a line break only
     Element(<<"", "p">>, "tt", <<Begin(<<"3", "s">>)>>,
             <<Element(<<"", "br">>, "tt", <<>>, <<>>)>>),
     \* milliseconds, nested spans, an end time on the outer span only
     Element(<<"", "p">>, "tt", <<Begin(<<"5", "0", "0", "m", "s">>)>>,
             <<Span(<<End(<<"1", "5", "0", "0", "m", "s">>)>>,
                    <<TextNode(<<"f">>), Span(<<Begin(<<"1", "s">>)>>, <<TextNode(<<"g">>)>>)>>)>>),
     \* a span that begins before its p
     Element(<<"", "p">>, "tt", <<Begin(<<"2", "s">>)>>,
             <<Span(<<Begin(<<"1", "s">>)>>, <<TextNode(<<"h">>)>>)>>),
     \* a role that names the agent declared without a name
     Element(<<"", "p">>, "tt", <<Begin(<<"4", "s">>),
                               Attr(<<"ttm", "role">>, "ttm", <<"v", "2">>)>>,
             <<TextNode(<<"i">>)>>),
     \* a background span with a begin and an end, around text, a span with its own
     \* begin and end, and a span without either
     Element(<<"", "p">>, "tt", <<Begin(<<"1", "s">>)>>,
             <<Span(<<Begin(<<"2", "s">>), End(<<"5", "s">>),
                      Attr(<<"ttm", "role">>, "ttm", XBg)>>,
                    <<TextNode(<<"j">>),
                      Span(<<Begin(<<"3", "s">>), End(<<"4", "s">>)>>, <<TextNode(<<"k">>)>>),
                      Span(<<>>, <<TextNode(<<"l">>)>>)>>)>>),
     \* text directly under p in front of a span that has an end and no begin
     Element(<<"", "p">>, "tt", <<Begin(<<"1", "s">>)>>,
             <<TextNode(<<"m">>), Span(<<End(<<"2", "s">>)>>, <<TextNode(<<"n">>)>>)>>)
  >>

PSeqs == UNION {[1..n -> {PSamples[i] : i \in 1..Len(PSamples)}] : n \in 1..MaxTtmlPs}

Div(children) == Element(<<"", "div">>, "tt", <<>>, children)

\* the children of body for the p elements ps: directly under body, under
\* one div, under a div in a div, the first beside a div that holds the rest
BodyLayouts(ps) ==
  {ps, <<Div(ps)>>, <<Div(<<Div(ps)>>)>>, <<Head(ps), Div(Tail(ps))>>}

\* a head that declares a title, a copyright, the agent v1 with a name and
\* the agent v2 without one
HeadSample ==
  Element(<<"", "head">>, "tt", <<>>,
          <<Element(<<"", "metadata">>, "tt", <<>>,
                    <<Element(<<"ttm", "title">>, "ttm", <<>>, <<TextNode(<<"T">>)>>),
                      Element(<<"ttm", "agent">>, "ttm",
                              <<Attr(<<"xml", "id">>, "xml", <<"v", "1">>)>>,
                              <<Element(<<"ttm", "name">>, "ttm", <<>>,
                                        <<TextNode(<<"L", "e", "a", "d">>)>>)>>),
                      Element(<<"ttm", "copyright">>, "ttm", <<>>, <<TextNode(<<"C">>)>>),
                      Element(<<"ttm", "agent">>, "ttm",
                              <<Attr(<<"xml", "id">>, "xml", <<"v", "2">>)>>, <<>>)>>)>>)

TtmlDocs ==
  {[documentElement |-> Element(<<"", "tt">>, "tt", <<>>, heads \o <<Element(<<"", "body">>, "tt", <<>>, layout)>>)] :
     heads \in {<<>>, <<HeadSample>>}, layout \in UNION {BodyLayouts(ps) : ps \in PSeqs}}
  \cup {[documentElement |-> Element(<<"", "tt">>, "tt", <<>>, <<HeadSample>>)],
        [documentElement |-> Element(<<"", "tt">>, "tt", <<>>, <<HeadSample, PSamples[2]>>)],
        NotXml}

\* the TTML sources; of the text only the opening of the root element, which
\* detectFormat reads, is kept: the rest is read by DOMParser alone
TtmlSources ==
  {[text |-> TtmlRootMarker \o <<" ">> \o TtmlNamespaceMarker \o <<">">>, xml |-> d] : d \in TtmlDocs}
    \cup {\* a root tag around an LRC line: well-formed, text under tt
          [text |-> <<"<", "t", "t", ">", "[", "0", "0", ":", "0", "1", ".", "0", "0", "]", "a", "<", "/", "t", "t", ">">>,
           xml |-> [documentElement |->
                      Element(<<"", "tt">>, "", <<>>, <<TextNode(<<"[", "0", "0", ":", "0", "1", ".", "0", "0", "]", "a">>)>>)]],
          \* a root tag before an ELRC line: the word tag is not markup
          [text |-> <<"<", "t", "t", ">", "[", "0", "0", ":", "0", "1", ".", "0", "0", "]", "<", "0", "0", ":", "0", "1", ".", "0", "0", ">", "a">>, xml |-> NotXml]}

ParseIdle ==
  /\ parseOp = "idle"
  /\ parseSrc = [text |-> <<>>, xml |-> NotXml]
  /\ parseFormat = ""
  /\ parseDoc = EmptyDoc

\* a call of parseLyrics is about to be made
ParseInit ==
  /\ parseOp = "toParse"
  /\ \/ parseSrc \in TextSources /\ parseFormat \in {"", "LRC", "ELRC", "PLAIN"}
     \/ parseSrc \in TtmlSources /\ parseFormat \in {"", "TTML"}
  /\ parseDoc = EmptyDoc

ParseLyrics ==
  /\ parseOp = "toParse"
  /\ parseDoc' = parseLyrics(parseSrc, parseFormat)
  /\ parseOp' = "parsed"
  /\ UNCHANGED <<parseSrc, parseFormat>>
  /\ UNCHANGED <<codecVars, shiftVars, roundTripVars, lrcVars, editorVars, exportVars, historyVars>>

ParseNext == ParseLyrics

\* ------------------------------------------------------------------------
\* LRC round trip: the inputs and the calls
\* ------------------------------------------------------------------------

MaxRtLines == 2

\* start times: zero, a half second, 12.34 s, over a minute, an hour
RtStarts ==
  {0, 3 * (TicksPerSec \div 2), 12 * TicksPerSec + 3400, 61 * TicksPerSec, 3600 * TicksPerSec}

\* rawText: empty, one word, two words, a 'Name: ' prefix
RtTexts == {<<>>, <<"a">>, <<"a", " ", "b">>, <<"N", ":", " ", "a">>}

\* a line with no word-level timing: every word carries the line's start time
RtLine(n, start, rawText) ==
  LET ws == SelectSeq(SplitWhitespace(rawText), LAMBDA w : w # <<>>)
  IN [id |-> LineId(n), startTime |-> start, endTime |-> Undefined,
      words |-> [j \in 1..Len(ws) |-> TimedWord(WordId(n, j), ws[j], start)],
      rawText |-> rawText, voice |-> <<"v", "1">>, isBackground |-> FALSE,
      hasAttributes |-> FALSE, attributes |-> <<>>]

\* the documents given to generateLRC: up to MaxRtLines lines in ascending
\* order of start time, with and without a title
RtDocs ==
  LET shapes == UNION {[1..n -> RtStarts \X RtTexts] : n \in 0..MaxRtLines}
      sorted == {f \in shapes : \A i \in 1..(Len(f) - 1) : f[i][1] <= f[i + 1][1]}
  IN {[format |-> "LRC",
       lines |-> [i \in 1..Len(f) |-> RtLine(i, f[i][1], f[i][2])],
       metadata |-> m] : f \in sorted, m \in {EmptyMetadata, [EmptyMetadata EXCEPT !.title = <<"T">>]}}

RoundTripIdle ==
  /\ rtOp = "idle"
  /\ rtDoc = EmptyDoc
  /\ rtText = <<>>
  /\ rtParsed = EmptyDoc
  /\ rtText2 = <<>>

\* a document is about to be exported as LRC
RoundTripInit ==
  /\ rtOp = "toGenerate"
  /\ rtDoc \in RtDocs
  /\ rtText = <<>>
  /\ rtParsed = EmptyDoc
  /\ rtText2 = <<>>

GenerateLRC ==
  /\ rtOp = "toGenerate"
  /\ rtText' = generateLRC(rtDoc)
  /\ rtOp' = "generated"
  /\ UNCHANGED <<rtDoc, rtParsed, rtText2>>
  /\ UNCHANGED <<codecVars, shiftVars, parseVars, lrcVars, editorVars, exportVars, historyVars>>

\* parseLyrics applied to the generated text; the text is not XML
ParseGenerated ==
  /\ rtOp = "generated"
  /\ rtParsed' = parseLyrics([text |-> rtText, xml |-> NotXml], "")
  /\ rtOp' = "reparsed"
  /\ UNCHANGED <<rtDoc, rtText, rtText2>>
  /\ UNCHANGED <<codecVars, shiftVars, parseVars, lrcVars, editorVars, exportVars, historyVars>>

GenerateAgain ==
  /\ rtOp = "reparsed"
  /\ rtText2' = generateLRC(rtParsed)
  /\ rtOp' = "regenerated"
  /\ UNCHANGED <<rtDoc, rtText, rtParsed>>
  /\ UNCHANGED <<codecVars, shiftVars, parseVars, lrcVars, editorVars, exportVars, historyVars>>

RoundTripNext == GenerateLRC \/ ParseGenerated \/ GenerateAgain

\* ------------------------------------------------------------------------
\* parseLRC raw line by raw line
\* ------------------------------------------------------------------------

LrcIdle ==
  /\ lrcOp = "idle"
  /\ lrcRawLines = <<>>
  /\ lrcPos = 0
  /\ lrcState = LrcStart
  /\ lrcDoc = EmptyDoc

\* parseLRC has split the text and is about to run rawLines.forEach
LrcInit ==
  /\ lrcOp = "lines"
  /\ lrcRawLines \in RawLineSeqs
  /\ lrcPos = 0
  /\ lrcState = LrcStart
  /\ lrcDoc = EmptyDoc

\* one call of the rawLines.forEach callback
ParseRawLineStep ==
  /\ lrcOp = "lines"
  /\ lrcPos < Len(lrcRawLines)
  /\ lrcState' = ParseRawLine(lrcState, lrcRawLines[lrcPos + 1])
  /\ lrcPos' = lrcPos + 1
  /\ UNCHANGED <<lrcOp, lrcRawLines, lrcDoc>>
  /\ UNCHANGED <<codecVars, shiftVars, parseVars, roundTripVars, editorVars, exportVars, historyVars>>

\* the rest of parseLRC once the forEach is over
LrcReturnStep ==
  /\ lrcOp = "lines"
  /\ lrcPos = Len(lrcRawLines)
  /\ lrcDoc' = LrcReturn(lrcState)
  /\ lrcOp' = "returned"
  /\ UNCHANGED <<lrcRawLines, lrcPos, lrcState>>
  /\ UNCHANGED <<codecVars, shiftVars, parseVars, roundTripVars, editorVars, exportVars, historyVars>>

LrcNext == ParseRawLineStep \/ LrcReturnStep

\* ------------------------------------------------------------------------
\* The editor: a parsed document and the operations made on it
\* ------------------------------------------------------------------------

EditorIdle ==
  /\ edOp = "idle"
  /\ edDoc = EmptyDoc
  /\ edSteps = 0
  /\ edNextId = 0

MaxEdits == 2

\* the texts whose parse is opened in the editor
EditorTexts ==
  { <<"[", "0", "0", ":", "0", "1", ".", "0", "0", "]", "a", " ", "b", "\n", "[", "0", "0", ":", "0", "3", ".", "0", "0", "]", "c">>,
    <<"a", " ", "b", "\n", "c">>,
    <<"[", "0", "0", ":", "0", "1", ".", "0", "0", "]", "<", "0", "0", ":", "0", "1", ".", "0", "0", ">", "a", " ", "<", "0", "0", ":", "0", "1", ".", "5", "0", ">", "b", "\n", "[", "0", "0", ":", "0", "2", ".", "0", "0", "]", "<", "0", "0", ":", "0", "2", ".", "0", "0", ">", "c">> }

\* the values typed in a line's textarea
EditorValues == {<<>>, <<"x">>, <<"x", " ">>, <<"x", " ", "y">>}

\* the values typed in a word's text input
EditorWordTexts == {<<>>, <<"z">>}

\* the values typed in a word's time input and in the batch shift input
EditorTimeStrings == {<<"0">>, <<"2">>, <<"5">>, <<"x">>}

EditorInit ==
  /\ edOp = "open"
  /\ edDoc \in {parseLyrics([text |-> t, xml |-> NotXml], "") : t \in EditorTexts}
  /\ edSteps = 0
  /\ edNextId = 0

\* the textarea's onChange on line i (1-based)
TextareaChange ==
  /\ edOp # "idle" /\ edSteps < MaxEdits
  /\ \E i \in 1..Len(edDoc.lines), value \in EditorValues :
       /\ edDoc' = updateLine(edDoc, edDoc.lines[i].id,
                              TextareaUpdates(edDoc.lines[i], value, edNextId))
       /\ edNextId' = edNextId + Len(Tokens(value))
  /\ edOp' = "textarea"
  /\ edSteps' = edSteps + 1
  /\ UNCHANGED <<codecVars, shiftVars, parseVars, roundTripVars, lrcVars, exportVars, historyVars>>

\* the textarea's onKeyDown for Enter without Shift, with or without Ctrl:
\* with Ctrl, handleLineKeyDown first hands addLine's document to onUpdate,
\* then handleEnterKey hands its own, built from the same doc, which stays
EnterKeyDown ==
  /\ edOp # "idle" /\ edSteps < MaxEdits
  /\ \E i \in 1..Len(edDoc.lines) : \E cursorPosition \in 0..Len(edDoc.lines[i].rawText) :
       /\ edDoc' = handleEnterKey(edDoc, i - 1, cursorPosition, edNextId)
       /\ edNextId' = edNextId + 1 + Len(edDoc.lines[i].rawText)
  /\ edOp' = "enter"
  /\ edSteps' = edSteps + 1
  /\ UNCHANGED <<codecVars, shiftVars, parseVars, roundTripVars, lrcVars, exportVars, historyVars>>

\* the textarea's onKeyDown for Ctrl+Backspace (handleLineKeyDown)
BackspaceKeyDown ==
  /\ edOp # "idle" /\ edSteps < MaxEdits
  /\ Len(edDoc.lines) > 1
  /\ \E i \in 1..Len(edDoc.lines) : edDoc' = deleteLine(edDoc, edDoc.lines[i].id)
  /\ edOp' = "backspace"
  /\ edSteps' = edSteps + 1
  /\ UNCHANGED edNextId
  /\ UNCHANGED <<codecVars, shiftVars, parseVars, roundTripVars, lrcVars, exportVars, historyVars>>

\* a click on a line's delete button
DeleteClick ==
  /\ edOp # "idle" /\ edSteps < MaxEdits
  /\ \E i \in 1..Len(edDoc.lines) : edDoc' = deleteLine(edDoc, edDoc.lines[i].id)
  /\ edOp' = "deleteLine"
  /\ edSteps' = edSteps + 1
  /\ UNCHANGED edNextId
  /\ UNCHANGED <<codecVars, shiftVars, parseVars, roundTripVars, lrcVars, exportVars, historyVars>>

\* a click on a line's add button (addLine(idx)) or on the add area below
\* the lines (addLine(doc.lines.length - 1))
AddClick ==
  /\ edOp # "idle" /\ edSteps < MaxEdits
  /\ \E afterIndex \in (0..(Len(edDoc.lines) - 1)) \cup {Len(edDoc.lines) - 1} :
       edDoc' = addLine(edDoc, afterIndex, EditorId(edNextId))
  /\ edNextId' = edNextId + 1
  /\ edOp' = "addLine"
  /\ edSteps' = edSteps + 1
  /\ UNCHANGED <<codecVars, shiftVars, parseVars, roundTripVars, lrcVars, exportVars, historyVars>>

\* a click on the up or down button of word wIdx of line idx (0-based) that
\* is not disabled
MoveWordClick ==
  /\ edOp # "idle" /\ edSteps < MaxEdits
  /\ \E idx \in 0..(Len(edDoc.lines) - 1), direction \in {"up", "down"} :
       /\ \E wIdx \in 0..(Len(edDoc.lines[idx + 1].words) - 1) :
            IF direction = "up" THEN ~(wIdx = 0 /\ idx = 0)
            ELSE ~(wIdx = Len(edDoc.lines[idx + 1].words) - 1 /\ idx = Len(edDoc.lines) - 1)
       /\ ~MoveWordReturns(edDoc, idx, direction)
       /\ edDoc' = moveWord(edDoc, idx, direction)
  /\ edOp' = "moveWord"
  /\ edSteps' = edSteps + 1
  /\ UNCHANGED edNextId
  /\ UNCHANGED <<codecVars, shiftVars, parseVars, roundTripVars, lrcVars, exportVars, historyVars>>

\* onChange or onBlur of a word's time input
WordTimeChange ==
  /\ edOp # "idle" /\ edSteps < MaxEdits
  /\ \E idx \in 0..(Len(edDoc.lines) - 1), value \in EditorTimeStrings :
       \E wIdx \in 0..(Len(edDoc.lines[idx + 1].words) - 1) :
         /\ ~isNaN(parseTimestamp(value))
         /\ edDoc' = updateWord(edDoc, idx, wIdx, [startTime |-> parseTimestamp(value)])
  /\ edOp' = "wordTime"
  /\ edSteps' = edSteps + 1
  /\ UNCHANGED edNextId
  /\ UNCHANGED <<codecVars, shiftVars, parseVars, roundTripVars, lrcVars, exportVars, historyVars>>

\* onChange of a word's text input
WordTextChange ==
  /\ edOp # "idle" /\ edSteps < MaxEdits
  /\ \E idx \in 0..(Len(edDoc.lines) - 1), value \in EditorWordTexts :
       \E wIdx \in 0..(Len(edDoc.lines[idx + 1].words) - 1) :
         edDoc' = updateWord(edDoc, idx, wIdx, [text |-> value])
  /\ edOp' = "wordText"
  /\ edSteps' = edSteps + 1
  /\ UNCHANGED edNextId
  /\ UNCHANGED <<codecVars, shiftVars, parseVars, roundTripVars, lrcVars, exportVars, historyVars>>

\* a click on a word's BG button
WordBackgroundClick ==
  /\ edOp # "idle" /\ edSteps < MaxEdits
  /\ \E idx \in 0..(Len(edDoc.lines) - 1) :
       \E wIdx \in 0..(Len(edDoc.lines[idx + 1].words) - 1) :
         edDoc' = updateWord(edDoc, idx, wIdx,
                             [isBackground |-> ~edDoc.lines[idx + 1].words[wIdx + 1].isBackground])
  /\ edOp' = "wordBackground"
  /\ edSteps' = edSteps + 1
  /\ UNCHANGED edNextId
  /\ UNCHANGED <<codecVars, shiftVars, parseVars, roundTripVars, lrcVars, exportVars, historyVars>>

\* a click on Shift Earlier (direction -1) or Shift Later (direction 1)
BatchShiftClick ==
  /\ edOp # "idle" /\ edSteps < MaxEdits
  /\ \E shiftText \in EditorTimeStrings, direction \in {1, -1} :
       edDoc' = handleBatchShift(edDoc, shiftText, direction)
  /\ edOp' = "batchShift"
  /\ edSteps' = edSteps + 1
  /\ UNCHANGED edNextId
  /\ UNCHANGED <<codecVars, shiftVars, parseVars, roundTripVars, lrcVars, exportVars, historyVars>>

EditorNext ==
  \/ TextareaChange
  \/ EnterKeyDown
  \/ BackspaceKeyDown
  \/ DeleteClick
  \/ AddClick
  \/ MoveWordClick
  \/ WordTimeChange
  \/ WordTextChange
  \/ WordBackgroundClick
  \/ BatchShiftClick

\* ------------------------------------------------------------------------
\* Export: a document given to each generator, the TTML text parsed again
\* ------------------------------------------------------------------------

ExportIdle ==
  /\ exOp = "idle"
  /\ exDoc = EmptyDoc
  /\ exLrc = <<>>
  /\ exElrc = <<>>
  /\ exTtml = [text |-> <<>>, xml |-> NotXml]
  /\ exParsed = EmptyDoc

MaxExportLines == 2

\* the lines of the exported documents, in ascending order of start time
ExportLineSamples ==
  <<
     \* a named voice, two timed words, an end time
     [id |-> LineId(1), startTime |-> TicksPerSec, endTime |-> 2 * TicksPerSec,
      words |-> <<[TimedWord(WordId(1, 1), <<"a">>, TicksPerSec)
                     EXCEPT !.endTime = 3 * (TicksPerSec \div 2)],
                  TimedWord(WordId(1, 2), <<"b">>, 3 * (TicksPerSec \div 2))>>,
      rawText |-> <<"a", " ", "b">>, voice |-> <<"L", "e", "a", "d">>, isBackground |-> FALSE,
      hasAttributes |-> FALSE, attributes |-> <<>>],
     \* no voice
     [id |-> LineId(2), startTime |-> 2 * TicksPerSec, endTime |-> Undefined,
      words |-> <<TimedWord(WordId(2, 1), <<"c">>, 2 * TicksPerSec)>>,
      rawText |-> <<"c">>, voice |-> UndefinedText, isBackground |-> FALSE,
      hasAttributes |-> FALSE, attributes |-> <<>>],
     \* a background line of one background word, attributes kept from a parse
     [id |-> LineId(3), startTime |-> 3 * TicksPerSec, endTime |-> Undefined,
      words |-> <<[TimedWord(WordId(3, 1), <<"d">>, 3 * TicksPerSec)
                     EXCEPT !.isBackground = TRUE]>>,
      rawText |-> <<"d">>, voice |-> <<"v", "1">>, isBackground |-> TRUE,
      hasAttributes |-> TRUE, attributes |-> <<<<<<"itunes", "key">>, <<"L", "9">>>>>>],
     \* a line without words, as addLine makes it
     [id |-> LineId(4), startTime |-> 4 * TicksPerSec, endTime |-> Undefined,
      words |-> <<>>, rawText |-> <<>>, voice |-> <<"v", "1">>, isBackground |-> FALSE,
      hasAttributes |-> FALSE, attributes |-> <<>>],
     \* a start time of 4.002 s
     [id |-> LineId(5), startTime |-> 4 * TicksPerSec + 20, endTime |-> Undefined,
      words |-> <<TimedWord(WordId(5, 1), <<"e">>, 4 * TicksPerSec + 20)>>,
      rawText |-> <<"e">>, voice |-> <<"v", "1">>, isBackground |-> FALSE,
      hasAttributes |-> FALSE, attributes |-> <<>>],
     \* the voice v1, one word that starts with the line
     [id |-> LineId(6), startTime |-> 5 * TicksPerSec, endTime |-> Undefined,
      words |-> <<TimedWord(WordId(6, 1), <<"f">>, 5 * TicksPerSec)>>,
      rawText |-> <<"f">>, voice |-> <<"v", "1">>, isBackground |-> FALSE,
      hasAttributes |-> FALSE, attributes |-> <<>>],
     \* the line parseTTML returns for <p begin="6s" end="7s">g</p>, a p
     \* without vendor attributes
     parseTTML([documentElement |->
                  Element(<<"", "tt">>, "tt", <<>>,
                    <<Element(<<"", "body">>, "tt", <<>>,
                        <<Element(<<"", "p">>, "tt", <<Begin(<<"6", "s">>), End(<<"7", "s">>)>>,
                                  <<TextNode(<<"g">>)>>)>>)>>)]).lines[1]
  >>

\* no metadata, and every field set
ExportMetadata ==
  {EmptyMetadata,
   [EmptyMetadata EXCEPT !.title = <<"T">>, !.artist = <<"A">>, !.album = <<"B">>,
                         !.author = <<"x", ",", " ", "y">>, !.createdBy = <<"z">>,
                         !.offset = TicksPerSec, !.language = <<"f", "r">>,
                         !.custom = <<<<<<"k">>, <<"v">>>>>>]}

\* the documents exported: up to MaxExportLines of the sample lines, in
\* their order
ExportDocs ==
  {[format |-> "LRC",
    lines |-> [i \in 1..Len(picked) |-> ExportLineSamples[picked[i]]],
    metadata |-> m] :
     picked \in {f \in UNION {[1..n -> 1..Len(ExportLineSamples)] : n \in 0..MaxExportLines} :
                   \A i \in 1..(Len(f) - 1) : f[i] < f[i + 1]},
     m \in ExportMetadata}

\* a document is about to be exported
ExportInit ==
  /\ exOp = "toExport"
  /\ exDoc \in ExportDocs
  /\ exLrc = <<>>
  /\ exElrc = <<>>
  /\ exTtml = [text |-> <<>>, xml |-> NotXml]
  /\ exParsed = EmptyDoc

ExportLRC ==
  /\ exOp = "toExport"
  /\ exLrc' = generateLRC(exDoc)
  /\ exOp' = "lrc"
  /\ UNCHANGED <<exDoc, exElrc, exTtml, exParsed>>
  /\ UNCHANGED <<codecVars, shiftVars, parseVars, roundTripVars, lrcVars, editorVars, historyVars>>

ExportELRC ==
  /\ exOp = "lrc"
  /\ exElrc' = generateELRC(exDoc)
  /\ exOp' = "elrc"
  /\ UNCHANGED <<exDoc, exLrc, exTtml, exParsed>>
  /\ UNCHANGED <<codecVars, shiftVars, parseVars, roundTripVars, lrcVars, editorVars, historyVars>>

ExportTTML ==
  /\ exOp = "elrc"
  /\ exTtml' = generateTTML(exDoc)
  /\ exOp' = "ttml"
  /\ UNCHANGED <<exDoc, exLrc, exElrc, exParsed>>
  /\ UNCHANGED <<codecVars, shiftVars, parseVars, roundTripVars, lrcVars, editorVars, historyVars>>

\* parseLyrics applied to the generated TTML text
ParseExported ==
  /\ exOp = "ttml"
  /\ exParsed' = parseLyrics(exTtml, "")
  /\ exOp' = "reparsed"
  /\ UNCHANGED <<exDoc, exLrc, exElrc, exTtml>>
  /\ UNCHANGED <<codecVars, shiftVars, parseVars, roundTripVars, lrcVars, editorVars, historyVars>>

ExportNext == ExportLRC \/ ExportELRC \/ ExportTTML \/ ParseExported

\* ------------------------------------------------------------------------
\* App: the document and its undo / redo history
\* ------------------------------------------------------------------------

\* the state before App has mounted: useState([]), useState(-1), useRef(false)
HistoryIdle ==
  /\ hsOp = "idle"
  /\ lyricsDoc = EmptyDoc
  /\ history = <<>>
  /\ historyIndex = -1
  /\ isUndoRedoAction = FALSE
  /\ hsSteps = 0

\* the number of snapshots kept
HistoryLimit == 50

MaxHistorySteps == 4

\* the documents an update asks for
HistoryDocs ==
  {[EmptyDoc EXCEPT !.format = "LRC", !.metadata.title = <<"a">>],
   [EmptyDoc EXCEPT !.format = "LRC", !.metadata.title = <<"b">>]}

\* the history after initialization and k updates that were recorded
HistoryAfter(k) ==
  [i \in 1..(k + 1) |->
     IF i = 1 THEN EmptyDoc
     ELSE [EmptyDoc EXCEPT !.format = "LRC",
                           !.metadata.title = IF i % 2 = 0 THEN <<"a">> ELSE <<"b">>]]

\* the numbers of recorded updates the runs start after: none, a few, and
\* enough to fill the history
HistoryStarts == {0, 2, HistoryLimit - 2, HistoryLimit - 1}

\* the effect that initializes the history, and the recorded updates made
\* before the run starts
HistoryInit ==
  /\ hsOp = "ready"
  /\ \E k \in HistoryStarts :
       /\ history = HistoryAfter(k)
       /\ historyIndex = k
       /\ lyricsDoc = HistoryAfter(k)[k + 1]
  /\ isUndoRedoAction = FALSE
  /\ hsSteps = 0

\* newHistory of updateLyricsDoc
NewHistory(newDoc) ==
  LET newHistory == Append(SubSeq(history, 1, historyIndex + 1), newDoc)
  IN IF Len(newHistory) > HistoryLimit THEN Tail(newHistory) ELSE newHistory

updateLyricsDoc(newDoc, addToHistory) ==
  /\ lyricsDoc' = newDoc
  /\ IF addToHistory /\ ~isUndoRedoAction
     THEN /\ history' = NewHistory(newDoc)
          /\ historyIndex' = Len(NewHistory(newDoc)) - 1
     ELSE UNCHANGED <<history, historyIndex>>
  /\ isUndoRedoAction' = FALSE

\* an update from the editor, an import, a project or the clear button
UpdateWithHistory ==
  /\ hsOp = "ready"
  /\ hsSteps < MaxHistorySteps
  /\ \E newDoc \in HistoryDocs : updateLyricsDoc(newDoc, TRUE)
  /\ hsSteps' = hsSteps + 1
  /\ UNCHANGED hsOp
  /\ UNCHANGED <<codecVars, shiftVars, parseVars, roundTripVars, lrcVars, editorVars, exportVars>>

\* an update from a field of the metadata dialog
UpdateWithoutHistory ==
  /\ hsOp = "ready"
  /\ hsSteps < MaxHistorySteps
  /\ \E title \in {<<"a">>, <<"b">>} :
       updateLyricsDoc([lyricsDoc EXCEPT !.metadata.title = title], FALSE)
  /\ hsSteps' = hsSteps + 1
  /\ UNCHANGED hsOp
  /\ UNCHANGED <<codecVars, shiftVars, parseVars, roundTripVars, lrcVars, editorVars, exportVars>>

undo ==
  /\ hsOp = "ready"
  /\ hsSteps < MaxHistorySteps
  /\ historyIndex > 0
  /\ isUndoRedoAction' = TRUE
  /\ historyIndex' = historyIndex - 1
  /\ lyricsDoc' = history[historyIndex]
  /\ hsSteps' = hsSteps + 1
  /\ UNCHANGED <<hsOp, history>>
  /\ UNCHANGED <<codecVars, shiftVars, parseVars, roundTripVars, lrcVars, editorVars, exportVars>>

redo ==
  /\ hsOp = "ready"
  /\ hsSteps < MaxHistorySteps
  /\ historyIndex < Len(history) - 1
  /\ isUndoRedoAction' = TRUE
  /\ historyIndex' = historyIndex + 1
  /\ lyricsDoc' = history[historyIndex + 2]
  /\ hsSteps' = hsSteps + 1
  /\ UNCHANGED <<hsOp, history>>
  /\ UNCHANGED <<codecVars, shiftVars, parseVars, roundTripVars, lrcVars, editorVars, exportVars>>

HistoryNext == UpdateWithHistory \/ UpdateWithoutHistory \/ undo \/ redo

\* ------------------------------------------------------------------------
\* Specifications
\* ------------------------------------------------------------------------

InitCodec == CodecInit /\ ShiftIdle /\ ParseIdle /\ RoundTripIdle /\ LrcIdle /\ EditorIdle /\ ExportIdle /\ HistoryIdle

SpecCodec == InitCodec /\ [][CodecNext]_vars

InitShift == CodecIdle /\ ShiftInit /\ ParseIdle /\ RoundTripIdle /\ LrcIdle /\ EditorIdle /\ ExportIdle /\ HistoryIdle

SpecShift == InitShift /\ [][ShiftNext]_vars

InitParse == CodecIdle /\ ShiftIdle /\ ParseInit /\ RoundTripIdle /\ LrcIdle /\ EditorIdle /\ ExportIdle /\ HistoryIdle

SpecParse == InitParse /\ [][ParseNext]_vars

InitRoundTrip == CodecIdle /\ ShiftIdle /\ ParseIdle /\ RoundTripInit /\ LrcIdle /\ EditorIdle /\ ExportIdle /\ HistoryIdle

SpecRoundTrip == InitRoundTrip /\ [][RoundTripNext]_vars

InitLrc == CodecIdle /\ ShiftIdle /\ ParseIdle /\ RoundTripIdle /\ LrcInit /\ EditorIdle /\ ExportIdle /\ HistoryIdle

SpecLrc == InitLrc /\ [][LrcNext]_vars

InitEditor == CodecIdle /\ ShiftIdle /\ ParseIdle /\ RoundTripIdle /\ LrcIdle /\ EditorInit /\ ExportIdle /\ HistoryIdle

SpecEditor == InitEditor /\ [][EditorNext]_vars

InitExport == CodecIdle /\ ShiftIdle /\ ParseIdle /\ RoundTripIdle /\ LrcIdle /\ EditorIdle /\ ExportInit /\ HistoryIdle

SpecExport == InitExport /\ [][ExportNext]_vars

InitHistory == CodecIdle /\ ShiftIdle /\ ParseIdle /\ RoundTripIdle /\ LrcIdle /\ EditorIdle /\ ExportIdle /\ HistoryInit

SpecHistory == InitHistory /\ [][HistoryNext]_vars

\* ------------------------------------------------------------------------
\* Properties of the shift utility
\* ------------------------------------------------------------------------

\* the times of a document, line by line: <<start, end, <<word start, word end>>...>>
TimesOf(doc) ==
  [i \in 1..Len(doc.lines) |->
     [startTime |-> doc.lines[i].startTime, endTime |-> doc.lines[i].endTime,
      words |-> [j \in 1..Len(doc.lines[i].words) |->
                   <<doc.lines[i].words[j].startTime, doc.lines[i].words[j].endTime>>]]]

\* C3: shiftTimestamps(doc, 0) leaves every line and word startTime and
\* endTime as it was: present with the same value (0 included) or absent.
C3_ShiftZeroIsIdentityOnTimes ==
  (shiftOp = "shift" /\ shiftOffset = 0) => TimesOf(shiftResult) = TimesOf(shiftDoc)

\* what the claims expect of one time t shifted into t2: present and not
\* negative, 0 when t + offset is below 0; an absent time stays absent
ShiftedAsClaimed(t, t2, offset) ==
  IF t = Undefined THEN t2 = Undefined
  ELSE /\ t2 # Undefined
       /\ t2 >= 0
       /\ (t + offset < 0 => t2 = 0)

\* C4: for a document with non-negative times and any offset, every time of
\* the result is >= 0, and a time t with t + offset < 0 becomes exactly 0.
C4_ShiftClampsAtZero ==
  shiftOp = "shift" =>
    \A i \in 1..Len(shiftDoc.lines) :
      LET l == shiftDoc.lines[i]
          r == shiftResult.lines[i]
      IN /\ ShiftedAsClaimed(l.startTime, r.startTime, shiftOffset)
         /\ ShiftedAsClaimed(l.endTime, r.endTime, shiftOffset)
         /\ \A j \in 1..Len(l.words) :
              /\ ShiftedAsClaimed(l.words[j].startTime, r.words[j].startTime, shiftOffset)
              /\ ShiftedAsClaimed(l.words[j].endTime, r.words[j].endTime, shiftOffset)

\* everything of a document but its times
FrameOf(doc) ==
  [format |-> doc.format, metadata |-> doc.metadata,
   lines |-> [i \in 1..Len(doc.lines) |->
                LET l == doc.lines[i]
                IN [id |-> l.id, rawText |-> l.rawText, voice |-> l.voice,
                    isBackground |-> l.isBackground, hasAttributes |-> l.hasAttributes,
                    attributes |-> l.attributes,
                    words |-> [j \in 1..Len(l.words) |->
                                 [id |-> l.words[j].id, text |-> l.words[j].text,
                                  isBackground |-> l.words[j].isBackground]]]]]

\* C5: shiftTimestamps changes only times: the result has the same lines in
\* the same order with their id, rawText, voice, isBackground and attributes,
\* the same words with their id, text and isBackground, the same metadata and
\* format; and the call leaves the document it was given as it was.
C5_ShiftChangesOnlyTimes ==
  [][shiftOp' = "shift" => (FrameOf(shiftResult') = FrameOf(shiftDoc) /\ shiftDoc' = shiftDoc)]_vars

\* a shift by a non-zero offset of two lines with words, a voice and
\* attributes, which changed the times
C5_Witness ==
  /\ shiftOp = "shift"
  /\ shiftOffset < 0
  /\ Len(shiftDoc.lines) = 2
  /\ shiftDoc.lines[2].hasAttributes
  /\ Len(shiftDoc.lines[2].words) = 2
  /\ shiftDoc.lines[1].voice = <<"v", "1">>
  /\ TimesOf(shiftResult) # TimesOf(shiftDoc)

\* ------------------------------------------------------------------------
\* Properties of the timestamp codec
\* ------------------------------------------------------------------------

\* 10^-precision seconds in ticks
PrecisionUnit(precision) == IF precision = 3 THEN TicksPerSec \div 1000 ELSE TicksPerSec \div 100

\* C6: for every finite s >= 0 and precision p, parseTimestamp(formatTimestamp(s, p))
\* differs from s by less than 10^-p and equals s when s is a whole multiple
\* of 10^-p.
C6_CodecRoundTrip ==
  (codecOp = "roundtrip" /\ IsFinite(codecSeconds) /\ codecSeconds >= 0) =>
    LET unit == PrecisionUnit(codecPrecision)
        diff == IF codecParsed >= codecSeconds THEN codecParsed - codecSeconds
                ELSE codecSeconds - codecParsed
    IN /\ IsFinite(codecParsed)
       /\ diff < unit
       /\ (codecSeconds % unit = 0 => codecParsed = codecSeconds)

IsDigitsOnly(str) == str # <<>> /\ \A i \in 1..Len(str) : IsDigit(str[i])

\* digits with an optional fraction
IsDecimal(str) ==
  LET parts == split(str, ".")
  IN \/ IsDigitsOnly(str)
     \/ Len(parts) = 2 /\ IsDigitsOnly(parts[1]) /\ IsDigitsOnly(parts[2])

\* H:MM:SS[.fff], MM:SS[.fff] or a decimal number, brackets aside
IsTimestampString(str) ==
  LET parts == split(StripBrackets(trim(str)), ":")
  IN /\ Len(parts) <= 3
     /\ \A i \in 1..(Len(parts) - 1) : IsDigitsOnly(parts[i])
     /\ IsDecimal(parts[Len(parts)])

\* C7: parseTimestamp returns exactly 0 (never NaN) for every string that is
\* not H:MM:SS[.fff], MM:SS[.fff] or a decimal number.
C7_ParseUnparseableIsZero ==
  (codecOp = "parse" /\ ~IsTimestampString(codecText)) => codecParsed = 0

\* C8: formatTimestamp returns the zero string of the precision for every
\* negative and every non-finite input (NaN, +Infinity, -Infinity).
C8_FormatZeroString ==
  (codecOp = "format" /\ (JsLt(codecSeconds, 0) \/ ~IsFinite(codecSeconds))) =>
    codecText = ZeroString(codecPrecision)

\* ------------------------------------------------------------------------
\* Properties of the parsers and of the LRC generator
\* ------------------------------------------------------------------------

\* the lyric lines of an LRC text: its lines that open with a bracket and a digit
LyricLinesOf(text) ==
  SelectSeq(split(text, "\n"), LAMBDA l : Len(l) >= 2 /\ l[1] = "[" /\ IsDigit(l[2]))

\* C1: LRC round trip. For a document with no word-level timing and
\* T = generateLRC(doc), generateLRC(parseLyrics(T)) has the lyric lines of
\* T: the same start timestamps and the same rawText, line by line.
C1_LrcRoundTrip ==
  rtOp = "regenerated" => LyricLinesOf(rtText2) = LyricLinesOf(rtText)

\* C2: the lines parseLyrics returns are in non-decreasing order of
\* startTime, for every format, and lines with equal startTime keep the
\* order in which the input gave them.
C2_ParsedLinesSorted ==
  parseOp = "parsed" =>
    \A i, j \in 1..Len(parseDoc.lines) :
      i < j =>
        /\ parseDoc.lines[i].startTime <= parseDoc.lines[j].startTime
        /\ (parseDoc.lines[i].startTime = parseDoc.lines[j].startTime
              => parseDoc.lines[i].id[1] < parseDoc.lines[j].id[1])

\* a parse whose sort moved a line and met two lines with the same start
C2_Witness ==
  /\ parseOp = "parsed"
  /\ \E i, j \in 1..Len(parseDoc.lines) :
       i < j /\ parseDoc.lines[i].id[1] > parseDoc.lines[j].id[1]
  /\ \E i, j \in 1..Len(parseDoc.lines) :
       i < j /\ parseDoc.lines[i].startTime = parseDoc.lines[j].startTime

\* the timestamps a raw line opens with, in order
RECURSIVE LeadingTimestamps(_)
LeadingTimestamps(content) ==
  IF TimeTagAt(content, 1, "[", "]").found
  THEN <<TagSeconds(TimeTagAt(content, 1, "[", "]"))>>
       \o LeadingTimestamps(SubSeq(content, TimeTagAt(content, 1, "[", "]").len + 1, Len(content)))
  ELSE <<>>

\* what follows the timestamps a raw line opens with
RECURSIVE AfterLeadingTimestamps(_)
AfterLeadingTimestamps(content) ==
  IF TimeTagAt(content, 1, "[", "]").found
  THEN AfterLeadingTimestamps(SubSeq(content, TimeTagAt(content, 1, "[", "]").len + 1, Len(content)))
  ELSE content

WordTexts(line) == [j \in 1..Len(line.words) |-> line.words[j].text]

\* the lines the forEach callback has just pushed are one per timestamp of
\* timestamps, in order, with one rawText and one sequence of word texts
OnePerTimestamp(before, after, timestamps) ==
  /\ Len(after) = Len(before) + Len(timestamps)
  /\ \A i \in 1..Len(timestamps) :
       /\ after[Len(before) + i].startTime = timestamps[i]
       /\ after[Len(before) + i].rawText = after[Len(before) + 1].rawText
       /\ WordTexts(after[Len(before) + i]) = WordTexts(after[Len(before) + 1])

\* C9: in LRC/ELRC parsing a raw line that starts with k >= 1 consecutive
\* bracketed timestamps followed by text produces exactly k lines, one per
\* timestamp with that timestamp as startTime, all with the same rawText
\* and the same word texts.
C9_OneLinePerLeadingTimestamp ==
  [][(/\ lrcPos' = lrcPos + 1
      /\ LeadingTimestamps(trim(lrcRawLines[lrcPos + 1])) # <<>>
      /\ trim(AfterLeadingTimestamps(trim(lrcRawLines[lrcPos + 1]))) # <<>>)
       => OnePerTimestamp(lrcState.lines, lrcState'.lines,
                          LeadingTimestamps(trim(lrcRawLines[lrcPos + 1])))]_vars

\* C10: after LRC/ELRC parsing every line but the last ends when the next
\* line starts and the last line ends 5 seconds after it starts; in every
\* line every word but the last ends when the next word starts and the last
\* word ends when the line ends.
C10_EndTimesInferred ==
  (parseOp = "parsed" /\ parseDoc.format \in {"LRC", "ELRC"}) =>
    \A i \in 1..Len(parseDoc.lines) :
      /\ parseDoc.lines[i].endTime =
           IF i < Len(parseDoc.lines) THEN parseDoc.lines[i + 1].startTime
           ELSE parseDoc.lines[i].startTime + 5 * TicksPerSec
      /\ \A j \in 1..Len(parseDoc.lines[i].words) :
           parseDoc.lines[i].words[j].endTime =
             IF j < Len(parseDoc.lines[i].words) THEN parseDoc.lines[i].words[j + 1].startTime
             ELSE parseDoc.lines[i].endTime

\* an LRC/ELRC parse of two lines or more, one of them with two words that
\* start at different times
C10_Witness ==
  /\ parseOp = "parsed"
  /\ parseDoc.format \in {"LRC", "ELRC"}
  /\ Len(parseDoc.lines) >= 2
  /\ \E i \in 1..Len(parseDoc.lines) :
       /\ Len(parseDoc.lines[i].words) >= 2
       /\ parseDoc.lines[i].words[1].startTime # parseDoc.lines[i].words[2].startTime
       /\ i < Len(parseDoc.lines)

\* ------------------------------------------------------------------------
\* C11: word start times within an LRC/ELRC line
\* ------------------------------------------------------------------------

\* the remaining text of a raw line: what follows its leading timestamps
\* and its voice prefix
RemainingText(rawLine) ==
  LET content == trim(AfterLeadingTimestamps(trim(rawLine)))
  IN IF voiceRegexMatch(content).found THEN trim(voiceRegexMatch(content).g2) ELSE content

\* the positions of content where an inline <MM:SS.fff> tag starts
InlineTagStarts(content) ==
  {p \in 1..Len(content) : TimeTagAt(content, p, "<", ">").found}

\* whether position i of content lies inside an inline tag
InInlineTag(content, i) ==
  \E p \in InlineTagStarts(content) :
    p <= i /\ i <= p + TimeTagAt(content, p, "<", ">").len - 1

\* the positions where a text segment (a maximal stretch outside the tags)
\* starts
SegmentStarts(content) ==
  {i \in 1..Len(content) :
     ~InInlineTag(content, i) /\ (i = 1 \/ InInlineTag(content, i - 1))}

\* the last position of the text segment that starts at position a
SegmentEnd(content, a) ==
  CHOOSE b \in a..Len(content) :
    /\ \A i \in a..b : ~InInlineTag(content, i)
    /\ (b = Len(content) \/ InInlineTag(content, b + 1))

\* the value of the tag that ends right before position a
PrecedingTagSeconds(content, a) ==
  TagSeconds(TimeTagAt(content,
                       CHOOSE p \in InlineTagStarts(content) :
                         p + TimeTagAt(content, p, "<", ">").len = a,
                       "<", ">"))

\* the k-th smallest member of a set of integers
KthSmallest(set, k) == CHOOSE x \in set : Cardinality({y \in set : y <= x}) = k

\* the words the claim expects of a remaining text with inline tags: one per
\* non-blank text segment, timed by the nearest preceding tag
SegmentWords(content, lineStart) ==
  LET starts == SegmentStarts(content)
      seg(k) == [text |-> trim(SubSeq(content, KthSmallest(starts, k),
                                       SegmentEnd(content, KthSmallest(starts, k)))),
                 startTime |-> IF KthSmallest(starts, k) = 1 THEN lineStart
                               ELSE PrecedingTagSeconds(content, KthSmallest(starts, k))]
  IN SelectSeq([k \in 1..Cardinality(starts) |-> seg(k)], LAMBDA w : w.text # <<>>)

\* the words the claim expects of a remaining text without inline tags: one
\* per whitespace-separated token, timed by the line
TokenWords(content, lineStart) ==
  LET tokens == SelectSeq(SplitWhitespace(content), LAMBDA w : w # <<>>)
  IN [j \in 1..Len(tokens) |-> [text |-> tokens[j], startTime |-> lineStart]]

ExpectedWords(content, lineStart) ==
  IF InlineTagStarts(content) # {} THEN SegmentWords(content, lineStart)
  ELSE TokenWords(content, lineStart)

\* the text and the start time of every word of a line
WordTextsAndStarts(line) ==
  [j \in 1..Len(line.words) |-> [text |-> line.words[j].text,
                                 startTime |-> line.words[j].startTime]]

\* C11: in LRC/ELRC parsing of a line's remaining text, with inline
\* <MM:SS.fff> tags every text segment is a word that starts at the value of
\* the nearest preceding tag (at the line's startTime when no tag precedes
\* it); without inline tags every whitespace-separated token is a word that
\* starts at the line's startTime.
C11_WordStartTimes ==
  [][lrcPos' = lrcPos + 1 =>
       \A i \in (Len(lrcState.lines) + 1)..Len(lrcState'.lines) :
         WordTextsAndStarts(lrcState'.lines[i])
           = ExpectedWords(RemainingText(lrcRawLines[lrcPos + 1]),
                           lrcState'.lines[i].startTime)]_vars

\* C12: in every document a parser (LRC, ELRC or TTML) returns, every word
\* starts at or after the start of the line that owns it.
C12_WordsStartWithinLine ==
  (parseOp = "parsed" /\ parseDoc.format \in {"LRC", "ELRC", "TTML"}) =>
    \A i \in 1..Len(parseDoc.lines) :
      \A j \in 1..Len(parseDoc.lines[i].words) :
        JsGe(parseDoc.lines[i].words[j].startTime, parseDoc.lines[i].startTime)

\* C13: in every document parseLyrics returns (Plain, LRC, ELRC, TTML), each
\* line with a non-empty words sequence has rawText equal to the word texts
\* joined by a single space.
C13_RawTextIsJoinedWords ==
  parseOp = "parsed" =>
    \A i \in 1..Len(parseDoc.lines) :
      parseDoc.lines[i].words # <<>> =>
        parseDoc.lines[i].rawText = join(WordTexts(parseDoc.lines[i]), <<" ">>)


\* ------------------------------------------------------------------------
\* Properties of the editor
\* ------------------------------------------------------------------------

\* C14: after any sequence of editor operations, every line that has words
\* has a rawText equal to its word texts joined by one space
C14_RawTextFollowsWords ==
  edOp # "idle" =>
    \A i \in 1..Len(edDoc.lines) :
      edDoc.lines[i].words # <<>> =>
        edDoc.lines[i].rawText = JoinedTexts(edDoc.lines[i].words)

\* C15: after any sequence of editor operations on a parsed document, no
\* line starts before the line in front of it
C15_LinesStaySorted ==
  edOp # "idle" =>
    \A i \in 1..(Len(edDoc.lines) - 1) :
      ~JsLt(edDoc.lines[i + 1].startTime, edDoc.lines[i].startTime)


\* ------------------------------------------------------------------------
\* Properties of the metadata the parsers keep
\* ------------------------------------------------------------------------

\* the elements of a sequence
Range(s) == {s[i] : i \in 1..Len(s)}

\* the tags parseLRC has a field for
RecognisedTags ==
  {<<"t", "i">>, <<"a", "r">>, <<"a", "l">>, <<"a", "u">>, <<"b", "y">>, <<"r", "e">>,
   <<"v", "e">>, <<"o", "f", "f", "s", "e", "t">>, <<"l", "a">>}

\* the [key:value] lines of an LRC text whose key the parser has no field
\* for, as pairs <<key in lower case, value>>
UnrecognisedTags(text) ==
  {<<trim(toLowerCase(metaRegexMatch(trim(l)).g1)), trim(metaRegexMatch(trim(l)).g2)>> :
     l \in {r \in Range(SplitLines(text)) :
              /\ metaRegexMatch(trim(r)).found
              /\ ~IsDigit(metaRegexMatch(trim(r)).g1[1])
              /\ trim(toLowerCase(metaRegexMatch(trim(r)).g1)) \notin RecognisedTags}}

\* the elements with text only under the head of a TTML document that are
\* neither the title, the artist, an agent's name nor a songwriter
UnrecognisedHeadElements(xmlDoc) ==
  {e \in UNION {Range(DescendantElements(h)) :
                  h \in Range(DocElementsByTagName(xmlDoc, <<"", "head">>))} :
     /\ e.name[2] \notin {"title", "artist", "name", "songwriter"}
     /\ e.children # <<>>
     /\ \A i \in 1..Len(e.children) : e.children[i].type = "text"}

\* C17: a metadata key the parser has no field for is kept in
\* metadata.custom, for the [key:value] lines of LRC / ELRC text and for the
\* head metadata elements of TTML
C17_UnknownKeysKept ==
  parseOp = "parsed" =>
    /\ parseDoc.format \in {"LRC", "ELRC"} =>
         \A kv \in UnrecognisedTags(parseSrc.text) :
           \E i \in 1..Len(parseDoc.metadata.custom) : parseDoc.metadata.custom[i][1] = kv[1]
    /\ parseDoc.format = "TTML" =>
         \A e \in UnrecognisedHeadElements(parseSrc.xml) :
           \E i \in 1..Len(parseDoc.metadata.custom) :
             parseDoc.metadata.custom[i][2] = textContent(e)


\* ------------------------------------------------------------------------
\* Properties of parseTTML
\* ------------------------------------------------------------------------

\* the call of parseLyrics made went to parseTTML
ParsedAsTtml ==
  /\ parseOp = "parsed"
  /\ \/ parseFormat = "TTML"
     \/ parseFormat = "" /\ detectFormat(parseSrc.text) = "TTML"

\* the document has no body element
HasNoBody(xmlDoc) ==
  \A e \in {xmlDoc.documentElement} \cup Range(DescendantElements(xmlDoc.documentElement)) :
    e.name # <<"", "body">>

\* C19: for a document without a body element, the parse error document
\* of malformed markup included, parseTTML returns a TTML document with no
\* lines
C19_NoBodyGivesNoLines ==
  (ParsedAsTtml /\ HasNoBody(parseSrc.xml)) =>
    parseDoc.format = "TTML" /\ parseDoc.lines = <<>>

\* parseTTML has returned for a document that has a p element and no body
C19_Witness ==
  /\ ParsedAsTtml
  /\ HasNoBody(parseSrc.xml)
  /\ getElementsByTagName(parseSrc.xml.documentElement, <<"", "p">>) # <<>>
  /\ parseDoc.format = "TTML" /\ parseDoc.lines = <<>>


\* the p elements parseTTML visits, in the order of the visit: those under
\* each div of the body, or those under the body when it has no div
VisitedPs(xmlDoc) ==
  LET body == DocElementsByTagName(xmlDoc, <<"", "body">>)[1]
      divs == getElementsByTagName(body, <<"", "div">>)
      RECURSIVE Under(_)
      Under(containers) ==
        IF containers = <<>> THEN <<>>
        ELSE getElementsByTagName(Head(containers), <<"", "p">>) \o Under(Tail(containers))
  IN Under(IF divs # <<>> THEN divs ELSE <<body>>)

\* the values of the attributes of el with the local name local
ValuesByLocalName(el, local) ==
  SelectSeq([i \in 1..Len(el.attrs) |-> IF el.attrs[i].name[2] = local THEN el.attrs[i].value
                                       ELSE Null],
            LAMBDA v : v # Null)

\* the identifier a p names its agent by: its agent attribute, else its
\* role attribute, else null
AgentIdOf(p) ==
  IF ValuesByLocalName(p, "agent") # <<>> THEN ValuesByLocalName(p, "agent")[1]
  ELSE IF ValuesByLocalName(p, "role") # <<>> THEN ValuesByLocalName(p, "role")[1]
  ELSE Null

\* the agent elements the head of the document declares with the identifier id
DeclaredAgents(xmlDoc, id) ==
  LET heads == DocElementsByTagName(xmlDoc, <<"", "head">>)
  IN IF heads = <<>> THEN <<>>
     ELSE SelectSeq(DescendantElements(heads[1]),
                    LAMBDA e : e.name[2] = "agent" /\ ValuesByLocalName(e, "id") = <<id>>)

\* the voice of the line of p as the agent map is described
ExpectedVoice(xmlDoc, p) ==
  IF AgentIdOf(p) = Null THEN UndefinedText
  ELSE IF DeclaredAgents(xmlDoc, AgentIdOf(p)) = <<>> THEN AgentIdOf(p)
  ELSE IF \E e \in Range(DescendantElements(DeclaredAgents(xmlDoc, AgentIdOf(p))[1])) :
            e.name[2] = "name" /\ textContent(e) # <<>>
  THEN textContent(SelectSeq(DescendantElements(DeclaredAgents(xmlDoc, AgentIdOf(p))[1]),
                             LAMBDA e : e.name[2] = "name")[1])
  ELSE AgentIdOf(p)

\* C20: the voice of a TTML line is the name of the agent its p names by an
\* agent or role attribute, the identifier itself when that agent has no
\* name or is not declared, and unset when the p has neither attribute
C20_VoiceThroughAgentMap ==
  (ParsedAsTtml /\ ~HasNoBody(parseSrc.xml)) =>
    \A i \in 1..Len(parseDoc.lines) :
      parseDoc.lines[i].voice
        = ExpectedVoice(parseSrc.xml, VisitedPs(parseSrc.xml)[parseDoc.lines[i].id[1]])

\* a document was parsed whose head declares the agents, with a line of the
\* agent that has a name and a line of the agent that has none
C20_Witness ==
  /\ ParsedAsTtml
  /\ DocElementsByTagName(parseSrc.xml, <<"", "head">>) # <<>>
  /\ \E i, j \in 1..Len(parseDoc.lines) :
       /\ parseDoc.lines[i].voice = <<"L", "e", "a", "d">>
       /\ parseDoc.lines[j].voice = <<"v", "2">>


\* ------------------------------------------------------------------------
\* Properties of the generators
\* ------------------------------------------------------------------------

\* the lines of a generated LRC / ELRC text that do not open with a timestamp
MetadataLinesOf(text) ==
  SelectSeq(SplitLines(text), LAMBDA l : l # <<>> /\ ~(Len(l) >= 2 /\ IsDigit(l[2])))

\* C18: generateELRC emits the metadata lines generateLRC emits for the same
\* document, in the same order
C18_ElrcMetadataAsLrc ==
  exOp \in {"elrc", "ttml", "reparsed"} =>
    MetadataLinesOf(exElrc) = MetadataLinesOf(exLrc)

\* a time in whole milliseconds
Millis(t) == IF t \in {NaN, Undefined} THEN t ELSE t \div (TicksPerSec \div 1000)

\* the background flag, the texts, the start times and the background
\* flags of the words of a line
WordsSummary(line) ==
  [j \in 1..Len(line.words) |->
     <<line.words[j].text, Millis(line.words[j].startTime), line.words[j].isBackground>>]

\* C16: the document parsed from generateTTML(doc) has as many lines as
\* doc and, line by line, the same start time to the millisecond, the same
\* voice, the same background flag and the same words
C16_TtmlRoundTrip ==
  exOp = "reparsed" =>
    /\ Len(exParsed.lines) = Len(exDoc.lines)
    /\ \A i \in 1..Len(exDoc.lines) :
         i <= Len(exParsed.lines) =>
           /\ Millis(exParsed.lines[i].startTime) = Millis(exDoc.lines[i].startTime)
           /\ exParsed.lines[i].voice = exDoc.lines[i].voice
           /\ exParsed.lines[i].isBackground = exDoc.lines[i].isBackground
           /\ WordsSummary(exParsed.lines[i]) = WordsSummary(exDoc.lines[i])


\* ------------------------------------------------------------------------
\* Properties of the format detection
\* ------------------------------------------------------------------------

\* the character of text at position k, "" outside the text
CharAt(text, k) == IF k \in 1..Len(text) THEN text[k] ELSE ""

\* the n characters of text from position k on are digits
DigitsAt(text, k, n) ==
  \A q \in k..(k + n - 1) :
    CharAt(text, q) \in {"0", "1", "2", "3", "4", "5", "6", "7", "8", "9"}

\* text holds sub
Holds(text, sub) ==
  \E k \in 1..(Len(text) - Len(sub) + 1) : SubSeq(text, k, k + Len(sub) - 1) = sub

\* text holds an inline tag <MM:SS> or <MM:SS.fff>, of one or two digits
\* for the minutes and one to three for the fraction
HoldsInlineTag(text) ==
  \E k \in 1..Len(text), mm \in 1..2, fff \in 0..3 :
    /\ text[k] = "<"
    /\ DigitsAt(text, k + 1, mm)
    /\ CharAt(text, k + mm + 1) = ":"
    /\ DigitsAt(text, k + mm + 2, 2)
    /\ IF fff = 0 THEN CharAt(text, k + mm + 4) = ">"
       ELSE /\ CharAt(text, k + mm + 4) = "."
            /\ DigitsAt(text, k + mm + 5, fff)
            /\ CharAt(text, k + mm + 5 + fff) = ">"

\* text holds the opening of a bracketed timestamp: [ , one to three
\* digits, a colon, two digits
HoldsLineTimestamp(text) ==
  \E k \in 1..Len(text), mm \in 1..3 :
    /\ text[k] = "["
    /\ DigitsAt(text, k + 1, mm)
    /\ CharAt(text, k + mm + 1) = ":"
    /\ DigitsAt(text, k + mm + 2, 2)

\* the format by the priority order TTML, ELRC, LRC, Plain
FormatByPriority(text) ==
  IF Holds(text, <<"<", "t", "t">>) \/ Holds(text, TtmlNamespaceMarker) THEN "TTML"
  ELSE IF HoldsInlineTag(text) THEN "ELRC"
  ELSE IF HoldsLineTimestamp(text) THEN "LRC"
  ELSE "PLAIN"

\* C21: detectFormat classifies in the priority order TTML, ELRC, LRC,
\* Plain, and parseLyrics without a format returns a document of the format
\* detected
C21_DetectionByPriority ==
  parseOp \in {"toParse", "parsed"} =>
    /\ detectFormat(parseSrc.text) = FormatByPriority(parseSrc.text)
    /\ (parseOp = "parsed" /\ parseFormat = "") =>
         parseDoc.format = FormatByPriority(parseSrc.text)

\* parseLyrics has returned, no format given, for a text that holds the root
\* tag, an inline tag and a line timestamp
C21_Witness ==
  /\ parseOp = "parsed" /\ parseFormat = ""
  /\ Holds(parseSrc.text, <<"<", "t", "t">>)
  /\ HoldsInlineTag(parseSrc.text)
  /\ HoldsLineTimestamp(parseSrc.text)
  /\ parseDoc.format = "TTML"


\* ------------------------------------------------------------------------
\* Properties of the raw lines of parseLRC taken one by one
\* ------------------------------------------------------------------------

\* a line without the identifiers of the line and of its words
Unidentified(line) ==
  [line EXCEPT !.id = <<>>,
               !.words = [j \in 1..Len(line.words) |-> [line.words[j] EXCEPT !.id = <<>>]]]

\* the lines a raw line gives when it is the only raw line of the text
LinesOfRawLineAlone(rawLine) ==
  [i \in 1..Len(ParseRawLine(LrcStart, rawLine).lines) |->
     Unidentified(ParseRawLine(LrcStart, rawLine).lines[i])]

\* C22: each raw line of an LRC / ELRC text gives the lines it gives when
\* parsed alone, whatever the raw lines before it
C22_RawLinesIndependent ==
  [][lrcPos' = lrcPos + 1 =>
       [i \in 1..(Len(lrcState'.lines) - Len(lrcState.lines)) |->
          Unidentified(lrcState'.lines[Len(lrcState.lines) + i])]
         = LinesOfRawLineAlone(lrcRawLines[lrcPos + 1])]_vars


\* the p elements under the body of the document that hold text
TextBearingPs(xmlDoc) ==
  SelectSeq(getElementsByTagName(DocElementsByTagName(xmlDoc, <<"", "body">>)[1], <<"", "p">>),
            LAMBDA p : trim(textContent(p)) # <<>>)

\* C23: parseTTML returns one line for each p element under body that holds
\* text, none twice and none left out, whatever the div elements around them
C23_OneLinePerP ==
  (ParsedAsTtml /\ ~HasNoBody(parseSrc.xml)) =>
    Len(parseDoc.lines) = Len(TextBearingPs(parseSrc.xml))


\* ------------------------------------------------------------------------
\* Properties of the words parseTTML extracts
\* ------------------------------------------------------------------------

\* the text nodes under node that hold text, in document order, each with
\* the elements between the p and the text node, outermost first
RECURSIVE TextLeaves(_, _)
TextLeaves(node, ancestors) ==
  IF node.type = "text"
  THEN IF trim(node.text) # <<>>
       THEN <<[text |-> trim(node.text), ancestors |-> ancestors]>>
       ELSE <<>>
  ELSE IF node.name = <<"", "br">> THEN <<>>
  ELSE LET RECURSIVE Over(_)
           Over(children) ==
             IF children = <<>> THEN <<>>
             ELSE TextLeaves(Head(children), Append(ancestors, node)) \o Over(Tail(children))
       IN Over(node.children)

\* the text nodes under the p element p
TextLeavesOfP(p) ==
  LET RECURSIVE Over(_)
      Over(children) ==
        IF children = <<>> THEN <<>>
        ELSE TextLeaves(Head(children), <<>>) \o Over(Tail(children))
  IN Over(p.children)

\* the ancestors that declare a begin
WithBegin(ancestors) == SelectSeq(ancestors, LAMBDA e : ValuesByLocalName(e, "begin") # <<>>)

\* the start inherited from the nearest ancestor that declares a begin
InheritedStart(ancestors, pStart) ==
  IF WithBegin(ancestors) = <<>> THEN pStart
  ELSE parseTime(ValuesByLocalName(WithBegin(ancestors)[Len(WithBegin(ancestors))], "begin")[1])

\* C24: a word made from a text node is a background word exactly when the
\* line is a background line or an element between the p and the text node
\* has the role x-bg, and it starts at the begin of the nearest such
\* element that declares a begin, or when the line starts if none does
C24_WordsInherit ==
  (ParsedAsTtml /\ ~HasNoBody(parseSrc.xml)) =>
    \A i \in 1..Len(parseDoc.lines) :
      LET line == parseDoc.lines[i]
          leaves == TextLeavesOfP(VisitedPs(parseSrc.xml)[line.id[1]])
      IN /\ Len(line.words) = Len(leaves)
         /\ \A j \in 1..Len(line.words) :
              /\ line.words[j].text = leaves[j].text
              /\ line.words[j].isBackground
                   = (line.isBackground
                      \/ \E e \in Range(leaves[j].ancestors) :
                           ValuesByLocalName(e, "role") = <<XBg>>)
              /\ line.words[j].startTime = InheritedStart(leaves[j].ancestors, line.startTime)

\* a line was parsed with a background word two elements below the one
\* that has the role, and words that start with the inner and the outer span
C24_Witness ==
  /\ ParsedAsTtml
  /\ \E i \in 1..Len(parseDoc.lines) :
       /\ ~parseDoc.lines[i].isBackground
       /\ Len(parseDoc.lines[i].words) = 3
       /\ \A j \in 1..3 : parseDoc.lines[i].words[j].isBackground
       /\ parseDoc.lines[i].startTime = TicksPerSec
       /\ parseDoc.lines[i].words[2].startTime = 3 * TicksPerSec
       /\ parseDoc.lines[i].words[3].startTime = 2 * TicksPerSec


\* the text nodes that hold text and the closings of the elements that have
\* an end, in the order traverse meets them, each with the elements from
\* below the p down to it
RECURSIVE ClosingOrder(_, _)
ClosingOrder(node, ancestors) ==
  IF node.type = "text"
  THEN IF trim(node.text) # <<>>
       THEN <<[kind |-> "text", ancestors |-> ancestors, end |-> Undefined]>>
       ELSE <<>>
  ELSE IF node.name = <<"", "br">> THEN <<>>
  ELSE LET RECURSIVE Over(_)
           Over(children) ==
             IF children = <<>> THEN <<>>
             ELSE ClosingOrder(Head(children), Append(ancestors, node)) \o Over(Tail(children))
       IN Over(node.children)
            \o (IF ValuesByLocalName(node, "end") # <<>>
                   /\ parseTime(ValuesByLocalName(node, "end")[1]) # Undefined
                THEN <<[kind |-> "close", ancestors |-> Append(ancestors, node),
                        end |-> parseTime(ValuesByLocalName(node, "end")[1])]>>
                ELSE <<>>)

\* ClosingOrder over the children of the p element p
ClosingOrderOfP(p) ==
  LET RECURSIVE Over(_)
      Over(children) ==
        IF children = <<>> THEN <<>>
        ELSE ClosingOrder(Head(children), <<>>) \o Over(Tail(children))
  IN Over(p.children)

\* the trailing run: the words from which on every word starts at or after
\* start and has no end
TrailingRun(starts, ends, start) ==
  {j \in 1..Len(ends) : \A m \in j..Len(ends) : JsGe(starts[m], start) /\ ends[m] = Undefined}

\* the ends of the words after one more event
EndsAfterEvent(before, event, starts, pStart) ==
  IF event.kind = "text" THEN Append(before, Undefined)
  ELSE [j \in 1..Len(before) |->
          IF j \in TrailingRun(starts, before, InheritedStart(event.ancestors, pStart))
          THEN event.end ELSE before[j]]

\* the ends of the words after the first k events
RECURSIVE EndsAfter(_, _, _, _)
EndsAfter(events, k, starts, pStart) ==
  IF k = 0 THEN <<>>
  ELSE EndsAfterEvent(EndsAfter(events, k - 1, starts, pStart), events[k], starts, pStart)

\* the starts of the words of the p element p
StartsOfP(p, pStart) ==
  [j \in 1..Len(TextLeavesOfP(p)) |-> InheritedStart(TextLeavesOfP(p)[j].ancestors, pStart)]

DeclaredEnds(ancestors) ==
  {parseTime(ValuesByLocalName(ancestors[k], "end")[1]) :
     k \in {k \in 1..Len(ancestors) : ValuesByLocalName(ancestors[k], "end") # <<>>}}

\* C26: an element's end is given only to words made from text below that
\* element: a word that has an end has it from an element between the p
\* and its text node
C26_EndOnlyWithinSubtree ==
  (ParsedAsTtml /\ ~HasNoBody(parseSrc.xml)) =>
    \A i \in 1..Len(parseDoc.lines) :
      LET line == parseDoc.lines[i]
          leaves == TextLeavesOfP(VisitedPs(parseSrc.xml)[line.id[1]])
      IN \A j \in 1..Len(line.words) :
           line.words[j].endTime # Undefined
             => line.words[j].endTime \in DeclaredEnds(leaves[j].ancestors)


\* ------------------------------------------------------------------------
\* Properties of the generated TTML
\* ------------------------------------------------------------------------

\* the p elements of a generated TTML document, in document order
GeneratedPs(ttml) == DocElementsByTagName(ttml.xml, <<"", "p">>)

\* the attributes of a p that are neither its times nor its agent
LineKeysOf(p) ==
  SelectSeq([k \in 1..Len(p.attrs) |-> <<p.attrs[k].name, p.attrs[k].value>>],
            LAMBDA a : a[1] \notin {<<"", "begin">>, <<"", "end">>, <<"ttm", "agent">>})

\* C27: every p generateTTML emits carries a line key: the attributes
\* captured for its line when there are any, else itunes:key "L<n>" for the
\* n-th line
C27_EveryPHasLineKey ==
  exOp \in {"ttml", "reparsed"} =>
    /\ Len(GeneratedPs(exTtml)) = Len(exDoc.lines)
    /\ \A i \in 1..Len(exDoc.lines) :
         i <= Len(GeneratedPs(exTtml)) =>
           LineKeysOf(GeneratedPs(exTtml)[i])
             = IF exDoc.lines[i].attributes # <<>> THEN exDoc.lines[i].attributes
               ELSE <<<<<<"itunes", "key">>, <<"L">> \o NatToString(i)>>>>


\* ------------------------------------------------------------------------
\* Properties of the undo / redo history
\* ------------------------------------------------------------------------

\* C28: every update asked for with addToHistory = true is recorded as the
\* newest snapshot: right after it, history[historyIndex] is the current
\* document and is the last snapshot, also when the update follows an undo
\* or a redo
C28_UpdateIsRecorded ==
  [][UpdateWithHistory =>
       /\ historyIndex' = Len(history') - 1
       /\ history'[historyIndex' + 1] = lyricsDoc']_vars

\* the bounds of the history: the index points at a snapshot and at most
\* HistoryLimit snapshots are kept
HistoryInBounds ==
  hsOp = "ready" =>
    /\ 0 <= historyIndex
    /\ historyIndex <= Len(history) - 1
    /\ Len(history) <= HistoryLimit

\* C29: after initialization the history stays within its bounds under
\* updates, undos and redos, and an update made while snapshots lie after
\* historyIndex drops them before it appends the new document
C29_HistoryBoundsAndDiscard ==
  [][/\ HistoryInBounds'
     /\ (UpdateWithHistory /\ historyIndex < Len(history) - 1) =>
          history' = Append(SubSeq(history, 1, historyIndex + 1), lyricsDoc')]_vars


\* ------------------------------------------------------------------------
\* Properties of shiftTimestamps on the order of the lines
\* ------------------------------------------------------------------------

\* no line starts before the line in front of it
InStartOrder(lines) ==
  \A i \in 1..(Len(lines) - 1) : ~JsLt(lines[i + 1].startTime, lines[i].startTime)

\* C30: shiftTimestamps keeps the order of the lines: when the lines of doc
\* are in non-decreasing order of start time, so are the lines of
\* shiftTimestamps(doc, offset), for negative offsets that clamp as well
C30_ShiftKeepsOrder ==
  (shiftOp = "shift" /\ InStartOrder(shiftDoc.lines)) => InStartOrder(shiftResult.lines)

\* two lines with different starts were shifted back so far that the first
\* was clamped to 0 and the second was not
C30_Witness ==
  /\ shiftOp = "shift"
  /\ shiftOffset < 0
  /\ Len(shiftDoc.lines) = 2
  /\ InStartOrder(shiftDoc.lines)
  /\ shiftDoc.lines[1].startTime + shiftOffset < 0
  /\ shiftResult.lines[1].startTime = 0
  /\ shiftResult.lines[2].startTime > 0

=============================================================================
